---- MODULE Spec2Model ----
(***************************************************************************)
(* Verification model of the quarks-operator manifest resolution core:     *)
(*   pkg/bosh/manifest/manifest.go      (the Manifest model)               *)
(*   pkg/kube/util/withops/resolver.go  (the Resolver pipeline)            *)
(***************************************************************************)
EXTENDS Integers, Sequences, FiniteSets, TLC

VARIABLES
    manifest,   \* the *Manifest object ApplyAddons is called on
    calls,      \* number of ApplyAddons calls made on that object
    lastErr,    \* whether the latest ApplyAddons call returned an error
    lastLog,    \* <<addon index, instance group index>> appends of the latest call
    injected,   \* per <<addon, instance group>>: how often the addon's jobs were appended
    pre,        \* the manifest as it was when the latest call started
    faults,     \* the calls that fail in this run for reasons outside the model
    implicit,   \* what Manifest.ImplicitVariables returned: [called, ok, names]
    env,        \* the BOSHDeployment spec and the stores behind the client
    inv,        \* the resolver invocations: position and locals of each
    io          \* a call of a function of the manifest: [op, arg, out]

addonVars == <<manifest, calls, lastErr, lastLog, injected, pre>>

vars == <<manifest, calls, lastErr, lastLog, injected, pre, faults, implicit, env, inv, io>>

(***************************************************************************)
(* Bounds of the model                                                     *)
(***************************************************************************)
MaxIGs == 2
MaxAddons == 2
MaxCalls == 3
MaxNameLen == 3
MaxOps == 2

(***************************************************************************)
(* Generic helpers                                                         *)
(***************************************************************************)
SetMin(S) == CHOOSE x \in S : \A y \in S : x <= y
SetMax(S) == CHOOSE x \in S : \A y \in S : y <= x

SeqsUpTo(S, n) == UNION {[1..k -> S] : k \in 0..n}
SeqsFromTo(S, lo, n) == UNION {[1..k -> S] : k \in lo..n}

RECURSIVE ConcatAll(_)
ConcatAll(ss) == IF ss = <<>> THEN <<>> ELSE Head(ss) \o ConcatAll(Tail(ss))

(***************************************************************************)
(* Manifest data model (manifest.go:79-161)                                *)
(***************************************************************************)
BoshDNSAddOnName == "bosh-dns"

NoReleaseStemcell == [set |-> FALSE, os |-> "", version |-> ""]
ReleaseStemcell(os, version) == [set |-> TRUE, os |-> os, version |-> version]
Release(name, version, stemcell) ==
    [name |-> name, version |-> version, url |-> "docker.io/cfcontainerization/",
     stemcell |-> stemcell]
Stemcell(alias, os, version) == [alias |-> alias, os |-> os, version |-> version]
Job(name, release) == [name |-> name, release |-> release, isAddon |-> FALSE]
AddOnJob(name, release) == [name |-> name, release |-> release, isAddon |-> FALSE]
NoUpdate == [set |-> FALSE, canaryWatchTime |-> "", updateWatchTime |-> "", serial |-> "nil"]
Update(canary, watch, serial) ==
    [set |-> TRUE, canaryWatchTime |-> canary, updateWatchTime |-> watch, serial |-> serial]
InstanceGroup(name, stemcell, jobs) ==
    [name |-> name, stemcell |-> stemcell, jobs |-> jobs, labels |-> {},
     update |-> NoUpdate]

NoRules == [set |-> FALSE, stemcell |-> {}, instanceGroup |-> {}, jobs |-> {}]
AddOnPlacementRules(stemcell, instanceGroup, jobs) ==
    [set |-> TRUE, stemcell |-> stemcell, instanceGroup |-> instanceGroup, jobs |-> jobs]
AddOn(name, jobs, include, exclude) ==
    [name |-> name, jobs |-> jobs, include |-> include, exclude |-> exclude]

Result(val) == [ok |-> TRUE, val |-> val]
Failure == [ok |-> FALSE, val |-> ""]

(***************************************************************************)
(* GetJobOS (manifest.go:419-467): the stemcell OS used for a job.         *)
(***************************************************************************)
GetJobOS(m, instanceGroupName, jobName) ==
    LET igIdx == {i \in 1..Len(m.igs) : m.igs[i].name = instanceGroupName}
    IN IF igIdx = {} THEN Failure
       ELSE
       LET instanceGroup == m.igs[SetMin(igIdx)]
           scIdx == {i \in 1..Len(m.stemcells) :
                        m.stemcells[i].alias = instanceGroup.stemcell}
           jobIdx == {i \in 1..Len(instanceGroup.jobs) :
                        instanceGroup.jobs[i].name = jobName}
       IN IF jobIdx = {} THEN Failure
          ELSE
          LET job == instanceGroup.jobs[SetMin(jobIdx)]
              relIdx == {i \in 1..Len(m.releases) : m.releases[i].name = job.release}
          IN IF relIdx = {} THEN Failure
             ELSE
             LET release == m.releases[SetMin(relIdx)]
             IN IF release.stemcell.set THEN Result(release.stemcell.os)
                ELSE IF scIdx = {} THEN Failure
                ELSE Result(m.stemcells[SetMax(scIdx)].os)

(***************************************************************************)
(* Addon placement matcher.  Its code is not part of the sources at hand;  *)
(* it is modelled from section 4.3 of the specification: nil rules match   *)
(* everything for inclusion and nothing for exclusion, every non-empty     *)
(* dimension must match, and a failure to resolve a job's stemcell OS      *)
(* while evaluating the stemcell dimension is an error.                    *)
(***************************************************************************)
stemcellMatch(m, ig, rules) ==
    LET oss == [i \in 1..Len(ig.jobs) |-> GetJobOS(m, ig.name, ig.jobs[i].name)]
    IN IF \E i \in 1..Len(ig.jobs) : ~oss[i].ok
       THEN [err |-> TRUE, match |-> FALSE]
       ELSE [err |-> FALSE,
             match |-> \E i \in 1..Len(ig.jobs) : oss[i].val \in rules.stemcell]

instanceGroupMatch(ig, rules) == ig.name \in rules.instanceGroup

jobMatch(ig, rules) ==
    \E i \in 1..Len(ig.jobs) : <<ig.jobs[i].name, ig.jobs[i].release>> \in rules.jobs

addOnPlacementMatch(m, placementType, ig, rules) ==
    IF ~rules.set
    THEN [err |-> FALSE, match |-> (placementType = "inclusion")]
    ELSE
    LET sc == IF rules.stemcell = {} THEN [err |-> FALSE, match |-> TRUE]
              ELSE stemcellMatch(m, ig, rules)
    IN IF sc.err THEN [err |-> TRUE, match |-> FALSE]
       ELSE [err |-> FALSE,
             match |-> /\ sc.match
                       /\ rules.instanceGroup = {} \/ instanceGroupMatch(ig, rules)
                       /\ rules.jobs = {} \/ jobMatch(ig, rules)]

(***************************************************************************)
(* ApplyAddons (manifest.go:523-567).  The instance groups are pointers,   *)
(* so jobs appended before an error return stay in the manifest.           *)
(***************************************************************************)
addedJobs(addon) ==
    [j \in 1..Len(addon.jobs) |->
        [name |-> addon.jobs[j].name, release |-> addon.jobs[j].release,
         isAddon |-> TRUE]]

\* A plausible slip: the exclusion result is ignored.
skipAddonIgnoringExclude(include, exclude) == ~include

\* manifest.go:541: the addon is skipped when excluded or not included.
skipAddon(include, exclude) == exclude \/ ~include

\* A plausible slip: the mark is set through a reference to the addon's own
\* job, so that the addon's job definition carries it too.
appendAddonJobsMarkingAddon(m, a, g) ==
    [m EXCEPT !.igs[g].jobs = @ \o addedJobs(m.addons[a]),
              !.addons[a].jobs = [j \in 1..Len(@) |-> [@[j] EXCEPT !.isAddon = TRUE]]]

\* manifest.go:546-559: a Job value is built from each job of the addon,
\* marked and appended to the instance group.
appendAddonJobs(m, a, g) ==
    [m EXCEPT !.igs[g].jobs = @ \o addedJobs(m.addons[a])]

RECURSIVE applyAddonsFrom(_, _, _, _)
applyAddonsFrom(m, a, g, log) ==
    IF a > Len(m.addons)
    THEN [m |-> [m EXCEPT !.addOnsApplied = TRUE], err |-> FALSE, log |-> log]
    ELSE IF m.addons[a].name = BoshDNSAddOnName \/ g > Len(m.igs)
    THEN applyAddonsFrom(m, a + 1, 1, log)
    ELSE
    LET addon == m.addons[a]
        ig == m.igs[g]
        include == addOnPlacementMatch(m, "inclusion", ig, addon.include)
        exclude == addOnPlacementMatch(m, "exclusion", ig, addon.exclude)
    IN IF include.err THEN [m |-> m, err |-> TRUE, log |-> log]
       ELSE IF exclude.err THEN [m |-> m, err |-> TRUE, log |-> log]
       ELSE IF skipAddon(include.match, exclude.match)
       THEN applyAddonsFrom(m, a, g + 1, log)
       ELSE applyAddonsFrom(appendAddonJobs(m, a, g), a, g + 1, Append(log, <<a, g>>))

\* A plausible slip: the AddOnsApplied guard is missing.
ApplyAddonsUnguarded(m) == applyAddonsFrom(m, 1, 1, <<>>)

ApplyAddons(m) ==
    IF m.addOnsApplied
    THEN [m |-> m, err |-> FALSE, log |-> <<>>]
    ELSE applyAddonsFrom(m, 1, 1, <<>>)

(***************************************************************************)
(* Manifests the addon specification starts from                           *)
(***************************************************************************)
IGNames == <<"web", "db", "worker", "api">>

IGChoices(name) ==
    {InstanceGroup(name, sc, jobs) :
        sc \in {"default", "other"},
        jobs \in {<<Job("nats", "nats")>>, <<Job("x", "missing")>>}}

IGSeqs ==
    UNION {{s \in [1..k -> UNION {IGChoices(IGNames[i]) : i \in 1..k}] :
                \A i \in 1..k : s[i].name = IGNames[i]} : k \in 1..MaxIGs}

AddOnChoices ==
    { AddOn("logger", <<AddOnJob("agent", "nats")>>, NoRules, NoRules),
      AddOn(BoshDNSAddOnName, <<AddOnJob("dns", "nats")>>, NoRules, NoRules),
      AddOn("tailer", <<AddOnJob("tail", "nats"), AddOnJob("fwd", "nats")>>,
            AddOnPlacementRules({}, {"web"}, {}), NoRules),
      AddOn("osaddon", <<AddOnJob("osj", "nats")>>,
            AddOnPlacementRules({"ubuntu"}, {}, {}), NoRules),
      AddOn("notweb", <<AddOnJob("nw", "nats")>>,
            NoRules, AddOnPlacementRules({}, {"web"}, {})),
      AddOn("follower", <<AddOnJob("fl", "nats")>>,
            AddOnPlacementRules({}, {}, {<<"agent", "nats">>}),
            AddOnPlacementRules({"suse"}, {}, {})) }

ReleaseChoices ==
    { <<Release("nats", "1.2.3", NoReleaseStemcell)>>,
      <<Release("nats", "1.2.3", ReleaseStemcell("suse", "15"))>> }

AddonManifests ==
    {[igs |-> igs, releases |-> rels,
      stemcells |-> <<Stemcell("default", "ubuntu", "1")>>,
      addons |-> addons, addOnsApplied |-> FALSE,
      variables |-> <<>>, props |-> <<>>, update |-> NoUpdate] :
        igs \in IGSeqs, rels \in ReleaseChoices,
        addons \in SeqsUpTo(AddOnChoices, MaxAddons)}

(***************************************************************************)
(* The addon specification: ApplyAddons called repeatedly on one manifest  *)
(***************************************************************************)
LogCount(log, pair) == Cardinality({i \in 1..Len(log) : log[i] = pair})

InitAddons ==
    /\ manifest \in AddonManifests
    /\ calls = 0
    /\ lastErr = FALSE
    /\ lastLog = <<>>
    /\ injected = [p \in (1..Len(manifest.addons)) \X (1..Len(manifest.igs)) |-> 0]
    /\ pre = manifest
    /\ faults = {}
    /\ implicit = [called |-> FALSE, ok |-> TRUE, names |-> <<>>]
    /\ env = <<>>
    /\ inv = <<>>
    /\ io = <<>>

CallApplyAddons ==
    /\ calls < MaxCalls
    /\ LET r == ApplyAddons(manifest)
       IN /\ manifest' = r.m
          /\ lastErr' = r.err
          /\ lastLog' = r.log
          /\ injected' = [p \in DOMAIN injected |-> injected[p] + LogCount(r.log, p)]
    /\ pre' = manifest
    /\ calls' = calls + 1
    /\ UNCHANGED <<faults, implicit, env, inv, io>>

NextAddons == CallApplyAddons

SpecAddons == InitAddons /\ [][NextAddons]_vars

(***************************************************************************)
(* Claims about ApplyAddons                                                *)
(***************************************************************************)

\* C1: over any sequence of ApplyAddons calls on one manifest object, failed
\* calls included, the jobs of an addon are appended to a given instance
\* group at most once.
C1_AppendedAtMostOnce == \A p \in DOMAIN injected : injected[p] <= 1

\* C2: once AddOnsApplied is true, a later call returns nil and leaves every
\* instance group's job list and AddOnsApplied (the whole manifest) unchanged.
C2_IdempotentAfterSuccess ==
    (calls > 0 /\ pre.addOnsApplied) => (~lastErr /\ manifest = pre)

C2_Witness ==
    /\ calls >= 2 /\ pre.addOnsApplied /\ ~lastErr
    /\ \E p \in DOMAIN injected : injected[p] = 1

\* The decision the claim C3 states for addon a and instance group ig of m:
\* not the DNS addon, Include matches and Exclude does not.
C3_Inject(m, addon, ig) ==
    LET inc == addOnPlacementMatch(m, "inclusion", ig, addon.include)
        exc == addOnPlacementMatch(m, "exclusion", ig, addon.exclude)
    IN /\ addon.name # "bosh-dns"
       /\ ~inc.err /\ inc.match
       /\ ~exc.err /\ ~exc.match

C3_Marked(addon) ==
    [j \in 1..Len(addon.jobs) |->
        [name |-> addon.jobs[j].name, release |-> addon.jobs[j].release,
         isAddon |-> TRUE]]

\* The job list of instance group g once the first a addons are processed,
\* each addon being matched against the group as it stands when its turn comes.
RECURSIVE C3_ExpectedJobs(_, _, _)
C3_ExpectedJobs(m, g, a) ==
    IF a = 0 THEN m.igs[g].jobs
    ELSE LET before == C3_ExpectedJobs(m, g, a - 1)
             mAt == [m EXCEPT !.igs[g].jobs = before]
         IN IF C3_Inject(mAt, m.addons[a], mAt.igs[g])
            THEN before \o C3_Marked(m.addons[a])
            ELSE before

\* C3: in a successful first call, an addon's jobs are appended to an
\* instance group (in the addon's job order, marked is-addon) if and only if
\* the addon is not 'bosh-dns', its Include rules match the group and its
\* Exclude rules do not; otherwise none of its jobs is appended.
C3_PlacementDecision ==
    (calls = 1 /\ ~lastErr) =>
        /\ \A g \in 1..Len(pre.igs) :
              manifest.igs[g].jobs = C3_ExpectedJobs(pre, g, Len(pre.addons))
        /\ \A a \in 1..Len(pre.addons), g \in 1..Len(pre.igs) :
              LET mAt == [pre EXCEPT !.igs[g].jobs = C3_ExpectedJobs(pre, g, a - 1)]
              IN (injected[<<a, g>>] = 1) <=> C3_Inject(mAt, pre.addons[a], mAt.igs[g])
        /\ \A p \in DOMAIN injected : injected[p] <= 1

C3_Witness ==
    /\ calls = 1 /\ ~lastErr
    /\ \E a \in 1..Len(pre.addons), g, h \in 1..Len(pre.igs) :
          /\ pre.addons[a].name # "bosh-dns"
          /\ pre.addons[a].exclude.set
          /\ injected[<<a, g>>] = 1
          /\ injected[<<a, h>>] = 0
    /\ \E a \in 1..Len(pre.addons) : pre.addons[a].name = "bosh-dns"

(***************************************************************************)
(* Serialized manifests.  The bytes of a manifest are modelled as the      *)
(* document they encode; text that is no manifest document is "garbage".   *)
(* Placeholders ((name)) are entries of the document's property values;    *)
(* a name is the sequence of its characters.                               *)
(***************************************************************************)
\* "a" and "value" stand for runs of letters, "." and "/" for themselves.
NameChars == {"a", "value", ".", "/"}

Placeholder(name) == [ph |-> TRUE, name |-> name, val |-> ""]
Literal(val) == [ph |-> FALSE, name |-> <<>>, val |-> val]

Yaml(doc) == [kind |-> "yaml", doc |-> doc]

\* Manifest.Marshal (manifest.go:186-217) as the resolver uses it: the bytes
\* of the manifest, or an error.  site names the calling line.
NilBytes ==
    [kind |-> "nil",
     doc |-> [igs |-> <<>>, releases |-> <<>>, stemcells |-> <<>>, addons |-> <<>>,
              addOnsApplied |-> FALSE, variables |-> <<>>, props |-> <<>>,
              update |-> NoUpdate]]

Marshal(m, site) ==
    IF site \in faults THEN [ok |-> FALSE, val |-> NilBytes]
    ELSE [ok |-> TRUE, val |-> Yaml(m)]

\* varRegexp (manifest.go:490): \(\((!?[-/\.\w\pL]+)\)\), an optional "!"
\* and one or more name characters between the double parentheses.
matchesVarRegexp(n) ==
    LET body == IF Len(n) > 0 /\ n[1] = "!" THEN Tail(n) ELSE n
    IN /\ Len(body) >= 1
       /\ \A i \in 1..Len(body) : body[i] \in NameChars

\* FindAllStringSubmatch (manifest.go:492): the names of the placeholders of
\* the text, in document order.
varRegexpFindAll(bytes) ==
    LET phs == SelectSeq(bytes.doc.props, LAMBDA e : e.ph /\ matchesVarRegexp(e.name))
    IN [i \in 1..Len(phs) |-> phs[i].name]

\* SlashedVariable (manifest.go:474-476)
SlashedVariable(name) == \E i \in 1..Len(name) : name[i] = "/"

\* fieldRegexp.FindString (manifest.go:491,499): the leftmost longest run of
\* characters other than a dot, or the empty string when there is none.
fieldRegexpFindString(name) ==
    LET nonDots == {i \in 1..Len(name) : name[i] # "."}
    IN IF nonDots = {} THEN <<>>
       ELSE LET first == SetMin(nonDots)
                dots == {i \in first..Len(name) : name[i] = "."}
                last == IF dots = {} THEN Len(name) ELSE SetMin(dots) - 1
            IN SubSeq(name, first, last)

\* manifest.go:493-503: the name stored for one match
recordedName(main) ==
    IF ~SlashedVariable(main) THEN fieldRegexpFindString(main) ELSE main

\* A plausible slip: the declared variables are not removed from the result.
ImplicitVariablesKeepingExplicit(m) ==
    LET mb == Marshal(m, "ImplicitVariables")
        matches == varRegexpFindAll(mb.val)
    IN IF ~mb.ok THEN [ok |-> FALSE, names |-> {}]
       ELSE [ok |-> TRUE,
             names |-> {recordedName(matches[i]) : i \in 1..Len(matches)}]

\* Manifest.ImplicitVariables (manifest.go:479-520): the keys of varMap that
\* are still true; the order of the returned list is that of a map iteration.
ImplicitVariables(m) ==
    LET mb == Marshal(m, "ImplicitVariables")
        matches == varRegexpFindAll(mb.val)
        recorded == {recordedName(matches[i]) : i \in 1..Len(matches)}
        declared == {m.variables[i] : i \in 1..Len(m.variables)}
        varMap == [k \in recorded \cup declared |-> k \notin declared]
    IN IF ~mb.ok THEN [ok |-> FALSE, names |-> {}]
       ELSE [ok |-> TRUE, names |-> {k \in DOMAIN varMap : varMap[k]}]

Orderings(S) ==
    {s \in [1..Cardinality(S) -> S] : \A i, j \in 1..Cardinality(S) : s[i] = s[j] => i = j}

(***************************************************************************)
(* LoadYAML (manifest.go:172-183): strict unmarshal of manifest bytes.     *)
(***************************************************************************)
EmptyManifest ==
    [igs |-> <<>>, releases |-> <<>>, stemcells |-> <<>>, addons |-> <<>>,
     addOnsApplied |-> FALSE, variables |-> <<>>, props |-> <<>>, update |-> NoUpdate]

Garbage == [kind |-> "garbage", doc |-> EmptyManifest]
NullDocument == [kind |-> "null", doc |-> EmptyManifest]

LoadYAML(data) ==
    IF data.kind \in {"garbage", "ops"} THEN [ok |-> FALSE, m |-> EmptyManifest]
    ELSE [ok |-> TRUE, m |-> data.doc]

(***************************************************************************)
(* AddReleasesLabels (manifest.go:378-415): per instance group, per job,   *)
(* per release of the job's name, one version-image label; an unpinned     *)
(* release in a group whose stemcell alias resolves to nothing is an       *)
(* error.  A job whose release is in no entry of Releases adds nothing.    *)
(***************************************************************************)
SetLabel(labels, name, value) ==
    {l \in labels : l[1] # name} \cup {<<name, value>>}

RECURSIVE labelPairs(_, _, _, _)
labelPairs(m, ig, pairs, labels) ==
    IF pairs = <<>> THEN [ok |-> TRUE, labels |-> labels]
    ELSE
    LET job == ig.jobs[Head(pairs)[1]]
        release == m.releases[Head(pairs)[2]]
        scIdx == {i \in 1..Len(m.stemcells) : m.stemcells[i].alias = ig.stemcell}
    IN IF release.name # job.release THEN labelPairs(m, ig, Tail(pairs), labels)
       ELSE IF ~release.stemcell.set /\ scIdx = {}
       THEN [ok |-> FALSE, labels |-> labels]
       ELSE
       LET stemcellVersion ==
               IF release.stemcell.set
               THEN <<release.stemcell.os, release.stemcell.version>>
               ELSE <<m.stemcells[SetMax(scIdx)].os, m.stemcells[SetMax(scIdx)].version>>
           labelName == <<"app.kubernetes.io/version-image-", job.release>>
           labelValue == stemcellVersion \o <<release.version>>
       IN labelPairs(m, ig, Tail(pairs), SetLabel(labels, labelName, labelValue))

JobReleasePairs(m, ig) ==
    LET nr == Len(m.releases)
    IN [k \in 1..(Len(ig.jobs) * nr) |-> <<((k - 1) \div nr) + 1, ((k - 1) % nr) + 1>>]

RECURSIVE addReleasesLabelsFrom(_, _)
addReleasesLabelsFrom(m, g) ==
    IF g > Len(m.igs) THEN [ok |-> TRUE, m |-> m]
    ELSE LET r == labelPairs(m, m.igs[g], JobReleasePairs(m, m.igs[g]), m.igs[g].labels)
             labelled == [m EXCEPT !.igs[g].labels = r.labels]
         IN IF r.ok THEN addReleasesLabelsFrom(labelled, g + 1)
            ELSE [ok |-> FALSE, m |-> labelled]

AddReleasesLabels(m) == addReleasesLabelsFrom(m, 1)

(***************************************************************************)
(* PropagateGlobalUpdateBlockToIGs (manifest.go:570-586), which the        *)
(* resolver calls as the last transformation (resolver.go:335).  Reading a *)
(* field of a nil global block, for a field the group left unset, panics.  *)
(***************************************************************************)
\* A plausible slip: structure replacement instead of the field-level merge.
propagateToIGWholesale(m, ig) ==
    [panic |-> FALSE, ig |-> [ig EXCEPT !.update = m.update]]

propagateToIG(m, ig) ==
    IF ~ig.update.set THEN [panic |-> FALSE, ig |-> [ig EXCEPT !.update = m.update]]
    ELSE IF ~m.update.set
    THEN [panic |-> \/ ig.update.canaryWatchTime = ""
                    \/ ig.update.updateWatchTime = ""
                    \/ ig.update.serial = "nil",
          ig |-> ig]
    ELSE [panic |-> FALSE,
          ig |-> [ig EXCEPT
                    !.update.canaryWatchTime =
                        IF @ = "" THEN m.update.canaryWatchTime ELSE @,
                    !.update.updateWatchTime =
                        IF @ = "" THEN m.update.updateWatchTime ELSE @,
                    !.update.serial = IF @ = "nil" THEN m.update.serial ELSE @]]

PropagateGlobalUpdateBlockToIGs(m) ==
    LET rs == [g \in 1..Len(m.igs) |-> propagateToIG(m, m.igs[g])]
        panics == {g \in 1..Len(m.igs) : rs[g].panic}
    IN [panic |-> panics # {},
        m |-> [m EXCEPT !.igs =
                  [g \in 1..Len(m.igs) |->
                      IF panics # {} /\ g >= SetMin(panics) THEN m.igs[g] ELSE rs[g].ig]]]

(***************************************************************************)
(* resourceData (resolver.go:341-384): the text behind a reference         *)
(***************************************************************************)
Resource(type, found, hasKey, data) ==
    [type |-> type, found |-> found, hasKey |-> hasKey, data |-> data]

resourceData(res) ==
    IF res.type \in {"configmap", "secret"}
    THEN IF res.found /\ res.hasKey THEN [ok |-> TRUE, val |-> res.data]
         ELSE [ok |-> FALSE, val |-> NilBytes]
    ELSE IF res.type = "url"
    THEN IF res.found THEN [ok |-> TRUE, val |-> res.data]
         ELSE [ok |-> FALSE, val |-> NilBytes]
    ELSE [ok |-> FALSE, val |-> NilBytes]

(***************************************************************************)
(* The Interpolator the resolver is constructed with (resolver.go:36-37).  *)
(* Its code is not part of the sources at hand; it is modelled from        *)
(* sections 4.4 and 6 of the specification: AddOps parses an ops document  *)
(* and accumulates its operations, Interpolate applies the accumulated     *)
(* operations in order to a document and fails if one does not apply.      *)
(***************************************************************************)
OpsFile(wellFormed, ops) ==
    [kind |-> "ops", doc |-> EmptyManifest, wellFormed |-> wellFormed, ops |-> ops]
AppendProp(entry) == [type |-> "append", index |-> 0, entry |-> entry]
RemoveProp(index) == [type |-> "remove", index |-> index, entry |-> Literal("")]
ReplaceProp(index, entry) == [type |-> "replace", index |-> index, entry |-> entry]

AddOps(ops, data) ==
    IF data.kind = "ops" /\ data.wellFormed
    THEN [ok |-> TRUE, ops |-> ops \o data.ops]
    ELSE [ok |-> FALSE, ops |-> ops]

applyOp(doc, op) ==
    IF op.type = "append"
    THEN [ok |-> TRUE, doc |-> [doc EXCEPT !.props = Append(@, op.entry)]]
    ELSE IF op.index > Len(doc.props) THEN [ok |-> FALSE, doc |-> doc]
    ELSE IF op.type = "remove"
    THEN [ok |-> TRUE,
          doc |-> [doc EXCEPT !.props =
                      SubSeq(@, 1, op.index - 1) \o SubSeq(@, op.index + 1, Len(@))]]
    ELSE [ok |-> TRUE, doc |-> [doc EXCEPT !.props[op.index] = op.entry]]

RECURSIVE applyOps(_, _)
applyOps(doc, ops) ==
    IF ops = <<>> THEN [ok |-> TRUE, doc |-> doc]
    ELSE LET r == applyOp(doc, Head(ops))
         IN IF r.ok THEN applyOps(r.doc, Tail(ops)) ELSE r

Interpolate(ops, data) ==
    IF data.kind # "yaml" THEN [ok |-> FALSE, val |-> NilBytes]
    ELSE LET r == applyOps(data.doc, ops)
         IN IF r.ok THEN [ok |-> TRUE, val |-> Yaml(r.doc)]
            ELSE [ok |-> FALSE, val |-> NilBytes]

(***************************************************************************)
(* buildSecretRefs (resolver.go:189-232)                                   *)
(***************************************************************************)
ImplicitVariableKeyName == <<"value">>

\* strings.Split(v, "/")
RECURSIVE Split(_)
Split(v) ==
    LET slashes == {i \in 1..Len(v) : v[i] = "/"}
    IN IF slashes = {} THEN <<v>>
       ELSE <<SubSeq(v, 1, SetMin(slashes) - 1)>>
                \o Split(SubSeq(v, SetMin(slashes) + 1, Len(v)))

\* names.SecretVariableName is not part of the sources at hand; section 4.2
\* of the specification calls it sanitize.  It is modelled as dropping the
\* characters a secret name cannot hold and adding the variable prefix.
SecretVariableName(name) ==
    <<"var-">> \o SelectSeq(name, LAMBDA c : c \notin {".", "/", "!"})

\* secretRefs.add (resolver.go:198-202)
add(refs, variable, secName, key) ==
    LET si == [variable |-> variable, key |-> key]
    IN IF secName \in DOMAIN refs
       THEN [refs EXCEPT ![secName] = Append(@, si)]
       ELSE refs @@ (secName :> <<si>>)

\* A plausible slip: the number of separators is not checked.
classifyUnchecked(v) ==
    IF SlashedVariable(v)
    THEN [ok |-> TRUE, secName |-> SecretVariableName(Split(v)[1]), key |-> Split(v)[2]]
    ELSE [ok |-> TRUE, secName |-> SecretVariableName(v), key |-> ImplicitVariableKeyName]

\* resolver.go:213-227: the secret name and key of one implicit variable
classify(v) ==
    IF SlashedVariable(v)
    THEN LET parts == Split(v)
         IN IF Len(parts) # 2
            THEN [ok |-> FALSE, secName |-> <<>>, key |-> <<>>]
            ELSE [ok |-> TRUE, secName |-> SecretVariableName(parts[1]), key |-> parts[2]]
    ELSE [ok |-> TRUE, secName |-> SecretVariableName(v), key |-> ImplicitVariableKeyName]

RECURSIVE buildRefsFrom(_, _)
buildRefsFrom(vs, refs) ==
    IF vs = <<>> THEN [ok |-> TRUE, refs |-> refs]
    ELSE LET c == classify(Head(vs))
         IN IF ~c.ok THEN [ok |-> FALSE, refs |-> refs]
            ELSE buildRefsFrom(Tail(vs), add(refs, Head(vs), c.secName, c.key))

\* vs is the list manifest.ImplicitVariables() returned, in its map order.
buildSecretRefs(ivOk, vs) ==
    IF ~ivOk THEN [ok |-> FALSE, refs |-> <<>>]
    ELSE buildRefsFrom(vs, <<>>)

(***************************************************************************)
(* Secrets and variable bindings                                           *)
(***************************************************************************)
Secret(exists, json, data) == [exists |-> exists, json |-> json, data |-> data]
Scalar(v) == [kind |-> "scalar", v |-> v, fields |-> {}]
Map(fields) == [kind |-> "map", v |-> "", fields |-> fields]

HasKey(data, key) == \E kv \in data : kv[1] = key
ValueOf(data, key) == (CHOOSE kv \in data : kv[1] = key)[2]

\* json.Unmarshal of a secret value (resolver.go:257-261)
jsonUnmarshal(val) ==
    IF val = "{}" THEN [ok |-> TRUE, val |-> Map({})]
    ELSE [ok |-> FALSE, val |-> Scalar(val)]

\* A plausible slip: a variable whose key the secret does not hold is
\* passed over.
RECURSIVE bindInfosSkippingMissing(_, _, _)
bindInfosSkippingMissing(secret, infos, impVars) ==
    IF infos = <<>> THEN [ok |-> TRUE, impVars |-> impVars]
    ELSE
    LET info == Head(infos)
    IN IF ~HasKey(secret.data, info.key)
       THEN bindInfosSkippingMissing(secret, Tail(infos), impVars)
       ELSE
       LET val == ValueOf(secret.data, info.key)
           js == jsonUnmarshal(val)
           bound == IF secret.json THEN js.val ELSE Scalar(val)
       IN IF secret.json /\ ~js.ok THEN [ok |-> FALSE, impVars |-> impVars]
          ELSE bindInfosSkippingMissing(secret, Tail(infos),
                   [k \in DOMAIN impVars \cup {info.variable} |->
                       IF k = info.variable THEN bound ELSE impVars[k]])

\* resolver.go:250-267: the bindings one fetched secret yields
RECURSIVE bindInfos(_, _, _)
bindInfos(secret, infos, impVars) ==
    IF infos = <<>> THEN [ok |-> TRUE, impVars |-> impVars]
    ELSE
    LET info == Head(infos)
    IN IF ~HasKey(secret.data, info.key) THEN [ok |-> FALSE, impVars |-> impVars]
       ELSE
       LET val == ValueOf(secret.data, info.key)
           js == jsonUnmarshal(val)
           bound == IF secret.json THEN js.val ELSE Scalar(val)
       IN IF secret.json /\ ~js.ok THEN [ok |-> FALSE, impVars |-> impVars]
          ELSE bindInfos(secret, Tail(infos),
                   [k \in DOMAIN impVars \cup {info.variable} |->
                       IF k = info.variable THEN bound ELSE impVars[k]])

\* MergeStaticVar (resolver.go:468-481); the type assertion panics when the
\* variable already holds a scalar.
MergeStaticVar(staticVar, field, value) ==
    IF ~staticVar.set THEN [panic |-> FALSE, set |-> TRUE, val |-> Map({<<field, value>>})]
    ELSE IF staticVar.val.kind # "map" THEN [panic |-> TRUE, set |-> TRUE, val |-> staticVar.val]
    ELSE [panic |-> FALSE, set |-> TRUE,
          val |-> Map({kv \in staticVar.val.fields : kv[1] # field} \cup {<<field, value>>})]

\* resolver.go:309-317: the binding of one user variable, the secret's data
\* visited in the order keys.
RECURSIVE staticVarFrom(_, _, _)
staticVarFrom(data, keys, staticVar) ==
    IF keys = <<>> \/ staticVar.panic THEN staticVar
    ELSE LET key == Head(keys)
             value == ValueOf(data, key)
         IN staticVarFrom(data, Tail(keys),
                IF key = <<"password">>
                THEN [panic |-> FALSE, set |-> TRUE, val |-> Scalar(value)]
                ELSE MergeStaticVar(staticVar, key, value))

NoStaticVar == [panic |-> FALSE, set |-> FALSE, val |-> Scalar("")]

(***************************************************************************)
(* The template evaluator (resolver.go:275-277, 440-450) is an external    *)
(* collaborator; it is modelled from section 6 of the specification: it    *)
(* substitutes the placeholders the bindings cover and leaves the others,  *)
(* or fails.  A placeholder names its variable by the part before the      *)
(* first dot; a sub-field of a scalar cannot be evaluated.                 *)
(***************************************************************************)
evalVarName(name) ==
    LET n == IF Len(name) > 0 /\ name[1] = "!" THEN Tail(name) ELSE name
        dots == {i \in 1..Len(n) : n[i] = "."}
    IN IF dots = {} THEN n ELSE SubSeq(n, 1, SetMin(dots) - 1)

evalHasPath(name) == \E i \in 1..Len(name) : name[i] = "."

Evaluate(data, bindings, site) ==
    IF site \in faults THEN [ok |-> FALSE, val |-> NilBytes]
    ELSE IF data.kind = "nil"
    THEN IF "EvaluateNil" \in faults THEN [ok |-> FALSE, val |-> NilBytes]
         ELSE [ok |-> TRUE, val |-> [kind |-> "null", doc |-> data.doc]]
    ELSE IF data.kind # "yaml" THEN [ok |-> FALSE, val |-> NilBytes]
    ELSE
    LET props == data.doc.props
        covered(e) == e.ph /\ evalVarName(e.name) \in DOMAIN bindings
        bad == \E i \in 1..Len(props) :
                  /\ covered(props[i]) /\ evalHasPath(props[i].name)
                  /\ bindings[evalVarName(props[i].name)].kind = "scalar"
        render(e) ==
            IF ~covered(e) THEN e
            ELSE LET b == bindings[evalVarName(e.name)]
                 IN Literal(IF b.kind = "scalar" THEN b.v ELSE "{map}")
    IN IF bad THEN [ok |-> FALSE, val |-> NilBytes]
       ELSE [ok |-> TRUE,
             val |-> Yaml([data.doc EXCEPT !.props =
                              [i \in 1..Len(props) |-> render(props[i])]])]

\* boshtpl.NewMultiVars (resolver.go:440): the first binding of a name wins.
RECURSIVE MultiVars(_)
MultiVars(vs) ==
    IF vs = <<>> THEN <<>>
    ELSE LET rest == MultiVars(Tail(vs))
         IN [k \in DOMAIN Head(vs) \cup DOMAIN rest |->
                IF k \in DOMAIN Head(vs) THEN Head(vs)[k] ELSE rest[k]]

\* InterpolateExplicitVariables (resolver.go:439-466)
InterpolateExplicitVariables(boshManifestBytes, vs, expectAllKeys) ==
    LET ev == Evaluate(boshManifestBytes, MultiVars(vs), "InterpolateExplicitVariables")
        ld == LoadYAML(ev.val)
        mb == Marshal(ld.m, "InterpolateExplicitVariables.Marshal")
        \* ExpectAllKeys (resolver.go:446): a placeholder without binding is an error
        unbound == /\ expectAllKeys /\ boshManifestBytes.kind = "yaml"
                   /\ \E i \in 1..Len(boshManifestBytes.doc.props) :
                         /\ boshManifestBytes.doc.props[i].ph
                         /\ evalVarName(boshManifestBytes.doc.props[i].name)
                               \notin DOMAIN MultiVars(vs)
    IN IF unbound \/ ~ev.ok \/ ~ld.ok \/ ~mb.ok THEN [ok |-> FALSE, val |-> NilBytes]
       ELSE [ok |-> TRUE, val |-> mb.val]

\* boshdns.Validate (resolver.go:331) is not part of the sources at hand; by
\* section 4.4 of the specification it fails the resolution when the DNS
\* addon's configuration is invalid.
Validate(m) == "Validate" \notin faults

(***************************************************************************)
(* The resolver (resolver.go:48-338).  Every invocation has its own        *)
(* locals; the Resolver's fields are read only.  One action is one         *)
(* statement group of the code, ending at the next external call or stage. *)
(***************************************************************************)
InvKinds == <<"Manifest", "ManifestDetailed", "ImplicitVariables">>
Invs == 1..Len(InvKinds)

NewInvocation(kind) ==
    [kind |-> kind, pc |-> "start", err |-> FALSE, panicked |-> FALSE,
     data |-> NilBytes, ops |-> <<>>, opIdx |-> 1,
     m |-> EmptyManifest, parsed |-> EmptyManifest, hasManifest |-> FALSE,
     implicitNames |-> <<>>, classified |-> FALSE, refs |-> <<>>, todo |-> {},
     impVars |-> <<>>, userIdx |-> 1, userVars |-> <<>>,
     names |-> <<>>, trace |-> <<>>]

Step(name, ok) == <<name, ok>>

\* A plausible slip: the failed call is tried once more before the error is
\* returned.
FailAfterRetry(r, steps) ==
    IF r.err
    THEN [r EXCEPT !.pc = "done", !.hasManifest = FALSE, !.m = EmptyManifest,
                   !.trace = @ \o steps]
    ELSE [r EXCEPT !.err = TRUE, !.trace = @ \o steps]

\* A return with an error: nil manifest (or the empty list), non-nil error.
Fail(r, steps) ==
    [r EXCEPT !.pc = "done", !.err = TRUE, !.hasManifest = FALSE,
              !.m = EmptyManifest, !.trace = @ \o steps]

\* The invocations in Invs run alone, one after the other; the invocations
\* beyond them start when those are done and run interleaved.
Scheduled(i) ==
    IF i \in Invs THEN \A j \in Invs : j < i => inv[j].pc = "done"
    ELSE \A j \in Invs : inv[j].pc = "done"

\* The statement order of applyVariables (resolver.go:235-338)
nextStage(pc) ==
    CASE pc = "refs" -> "secrets"
      [] pc = "secrets" -> "marshal"
      [] pc = "marshal" -> "evaluate"
      [] pc = "evaluate" -> "addons"
      [] pc = "addons" -> "marshal2"
      [] pc = "marshal2" -> "uservars"
      [] pc = "uservars" -> "explicit"
      [] pc = "explicit" -> "validate"
      [] pc = "validate" -> "update"
      [] pc = "update" -> "done"

\* r.client.Get of a secret (resolver.go:245, 305)
GetSecret(name) ==
    IF name \in DOMAIN env.secrets THEN env.secrets[name] ELSE Secret(FALSE, FALSE, {})

\* A plausible slip: the resolver keeps one interpolator, the one of its
\* first invocation, instead of the function that makes them.
newInterpolatorShared(i) == inv[1].ops

\* resolver.go:52: load obtains a fresh interpolator from newInterpolatorFunc
newInterpolator(i) == <<>>

\* resolver.go:56-59 and 144-147
FetchManifest(i) ==
    /\ inv[i].pc = "start" /\ Scheduled(i)
    /\ LET r == inv[i]
           res == resourceData(env.manifest)
       IN inv' = [inv EXCEPT ![i] =
             IF ~res.ok THEN Fail(r, <<Step("fetchManifest", FALSE)>>)
             ELSE [r EXCEPT !.data = res.val,
                            !.ops = IF r.kind = "ManifestDetailed" THEN @
                                    ELSE newInterpolator(i),
                            !.trace = Append(@, Step("fetchManifest", TRUE)),
                            !.pc = IF Len(env.ops) = 0 THEN "parse"
                                   ELSE IF r.kind = "ManifestDetailed" THEN "detailedOps"
                                   ELSE "ops"]]
    /\ UNCHANGED <<manifest, calls, lastErr, lastLog, injected, pre, faults, implicit, env, io>>

\* resolver.go:64-73: one round of the loop over the ops files
FetchOps(i) ==
    /\ inv[i].pc = "ops" /\ Scheduled(i)
    /\ LET r == inv[i]
           res == resourceData(env.ops[r.opIdx])
           added == AddOps(r.ops, res.val)
       IN inv' = [inv EXCEPT ![i] =
             IF ~res.ok THEN Fail(r, <<Step("fetchOps", FALSE)>>)
             ELSE IF ~added.ok
             THEN Fail(r, <<Step("fetchOps", TRUE), Step("addOps", FALSE)>>)
             ELSE [r EXCEPT !.ops = added.ops, !.opIdx = @ + 1,
                            !.trace = @ \o <<Step("fetchOps", TRUE), Step("addOps", TRUE)>>,
                            !.pc = IF r.opIdx = Len(env.ops) THEN "interpolate" ELSE "ops"]]
    /\ UNCHANGED <<manifest, calls, lastErr, lastLog, injected, pre, faults, implicit, env, io>>

\* resolver.go:75-81
InterpolateOps(i) ==
    /\ inv[i].pc = "interpolate" /\ Scheduled(i)
    /\ LET r == inv[i]
           res == Interpolate(r.ops, r.data)
       IN inv' = [inv EXCEPT ![i] =
             IF ~res.ok THEN Fail(r, <<Step("interpolate", FALSE)>>)
             ELSE [r EXCEPT !.data = res.val, !.pc = "parse",
                            !.trace = Append(@, Step("interpolate", TRUE))]]
    /\ UNCHANGED <<manifest, calls, lastErr, lastLog, injected, pre, faults, implicit, env, io>>

\* A plausible slip: the interpolator of the previous round is reused.
detailedInterpolatorReused(ops) == ops

\* resolver.go:154: every round of the detailed loop gets a fresh interpolator.
detailedInterpolator(ops) == <<>>

\* resolver.go:153-169: one round of the loop of ManifestDetailed
DetailedOp(i) ==
    /\ inv[i].pc = "detailedOps" /\ Scheduled(i)
    /\ LET r == inv[i]
           interpolator == detailedInterpolator(r.ops)
           res == resourceData(env.ops[r.opIdx])
           added == AddOps(interpolator, res.val)
           out == Interpolate(added.ops, r.data)
       IN inv' = [inv EXCEPT ![i] =
             IF ~res.ok THEN Fail(r, <<Step("fetchOps", FALSE)>>)
             ELSE IF ~added.ok
             THEN Fail(r, <<Step("fetchOps", TRUE), Step("addOps", FALSE)>>)
             ELSE IF ~out.ok
             THEN Fail(r, <<Step("fetchOps", TRUE), Step("addOps", TRUE),
                            Step("interpolate", FALSE)>>)
             ELSE [r EXCEPT !.ops = added.ops, !.opIdx = @ + 1, !.data = out.val,
                            !.trace = @ \o <<Step("fetchOps", TRUE), Step("addOps", TRUE),
                                             Step("interpolate", TRUE)>>,
                            !.pc = IF r.opIdx = Len(env.ops) THEN "parse"
                                   ELSE "detailedOps"]]
    /\ UNCHANGED <<manifest, calls, lastErr, lastLog, injected, pre, faults, implicit, env, io>>

\* resolver.go:83-87 and 171-174
Parse(i) ==
    /\ inv[i].pc = "parse" /\ Scheduled(i)
    /\ LET r == inv[i]
           ld == LoadYAML(r.data)
       IN inv' = [inv EXCEPT ![i] =
             IF ~ld.ok THEN Fail(r, <<Step("loadYAML", FALSE)>>)
             ELSE [r EXCEPT !.m = ld.m, !.parsed = ld.m,
                            !.trace = Append(@, Step("loadYAML", TRUE)),
                            !.pc = IF r.kind = "ImplicitVariables" THEN "refs"
                                   ELSE "labels"]]
    /\ UNCHANGED <<manifest, calls, lastErr, lastLog, injected, pre, faults, implicit, env, io>>

\* resolver.go:100-103 and 177-180
Labels(i) ==
    /\ inv[i].pc = "labels" /\ Scheduled(i)
    /\ LET r == inv[i]
           lb == AddReleasesLabels(r.m)
       IN inv' = [inv EXCEPT ![i] =
             IF ~lb.ok THEN Fail(r, <<Step("addReleasesLabels", FALSE)>>)
             ELSE [r EXCEPT !.m = lb.m, !.pc = "refs",
                            !.trace = Append(@, Step("addReleasesLabels", TRUE))]]
    /\ UNCHANGED <<manifest, calls, lastErr, lastLog, injected, pre, faults, implicit, env, io>>

\* resolver.go:120-131: the list the names-only entry point returns, the
\* secrets visited in the map order secs.
RECURSIVE varSecrets(_, _)
varSecrets(refs, secs) ==
    IF secs = <<>> THEN <<>>
    ELSE LET secName == Head(secs)
             infos == refs[secName]
         IN [k \in 1..Len(infos) |->
                IF infos[k].key = ImplicitVariableKeyName THEN secName
                ELSE secName \o <<"/">> \o infos[k].key]
            \o varSecrets(refs, Tail(secs))

\* A plausible slip: the names-only entry point goes on to bind the variables.
namesOnlyNever(kind) == FALSE

\* resolver.go:119-131: Resolver.ImplicitVariables returns right after the
\* classification, Manifest and ManifestDetailed go on in applyVariables.
namesOnly(kind) == kind = "ImplicitVariables"

\* resolver.go:114-131 (names only) and 236-239 (full resolution)
BuildRefs(i) ==
    /\ inv[i].pc = "refs" /\ Scheduled(i)
    /\ LET r == inv[i]
           iv == ImplicitVariables(r.m)
       IN \E vs \in Orderings(iv.names) :
          LET b == buildSecretRefs(iv.ok, vs)
              seen == [r EXCEPT !.implicitNames = vs, !.classified = iv.ok,
                                !.refs = b.refs]
          IN IF ~iv.ok
             THEN inv' = [inv EXCEPT ![i] = Fail(seen, <<Step("implicitVariables", FALSE)>>)]
             ELSE IF ~b.ok
             THEN inv' = [inv EXCEPT ![i] =
                      Fail(seen, <<Step("implicitVariables", TRUE),
                                   Step("buildSecretRefs", FALSE)>>)]
             ELSE IF namesOnly(r.kind)
             THEN \E secs \in Orderings(DOMAIN b.refs) :
                    inv' = [inv EXCEPT ![i] =
                       [seen EXCEPT !.names = varSecrets(b.refs, secs), !.pc = "done",
                                    !.trace = @ \o <<Step("implicitVariables", TRUE),
                                                     Step("buildSecretRefs", TRUE),
                                                     Step("return", TRUE)>>]]
             ELSE inv' = [inv EXCEPT ![i] =
                       [seen EXCEPT !.todo = DOMAIN b.refs,
                                    !.trace = @ \o <<Step("implicitVariables", TRUE),
                                                     Step("buildSecretRefs", TRUE)>>,
                                    !.pc = IF DOMAIN b.refs = {} THEN nextStage("secrets")
                                           ELSE nextStage("refs")]]
    /\ UNCHANGED <<manifest, calls, lastErr, lastLog, injected, pre, faults, implicit, env, io>>

\* resolver.go:243-268: one round of the loop over the referenced secrets
FetchSecret(i) ==
    /\ inv[i].pc = "secrets" /\ Scheduled(i)
    /\ \E secName \in inv[i].todo :
       LET r == inv[i]
           secret == GetSecret(secName)
           found == secret.exists
           bound == bindInfos(secret, r.refs[secName], r.impVars)
       IN inv' = [inv EXCEPT ![i] =
             IF ~found THEN Fail(r, <<Step("getSecret", FALSE)>>)
             ELSE IF ~bound.ok
             THEN Fail(r, <<Step("getSecret", TRUE), Step("bind", FALSE)>>)
             ELSE [r EXCEPT !.impVars = bound.impVars, !.todo = @ \ {secName},
                            !.trace = @ \o <<Step("getSecret", TRUE), Step("bind", TRUE)>>,
                            !.pc = IF r.todo = {secName} THEN nextStage("secrets")
                                   ELSE "secrets"]]
    /\ UNCHANGED <<manifest, calls, lastErr, lastLog, injected, pre, faults, implicit, env, io>>

\* resolver.go:271-274: the error of Marshal is dropped; the test that
\* follows reads the err of buildSecretRefs, which is nil here.
MarshalForEvaluate(i) ==
    /\ inv[i].pc = "marshal" /\ Scheduled(i)
    /\ LET r == inv[i]
           mb == Marshal(r.m, "Marshal271")
       IN inv' = [inv EXCEPT ![i] =
             [r EXCEPT !.data = mb.val, !.pc = nextStage("marshal"),
                       !.trace = Append(@, Step("marshal", mb.ok))]]
    /\ UNCHANGED <<manifest, calls, lastErr, lastLog, injected, pre, faults, implicit, env, io>>

\* resolver.go:275-285
EvaluateImplicit(i) ==
    /\ inv[i].pc = "evaluate" /\ Scheduled(i)
    /\ LET r == inv[i]
           ev == Evaluate(r.data, r.impVars, "Evaluate")
           ld == LoadYAML(ev.val)
       IN inv' = [inv EXCEPT ![i] =
             IF ~ev.ok THEN Fail(r, <<Step("evaluate", FALSE)>>)
             ELSE IF ~ld.ok
             THEN Fail(r, <<Step("evaluate", TRUE), Step("loadYAML2", FALSE)>>)
             ELSE [r EXCEPT !.data = ev.val, !.m = ld.m, !.pc = nextStage("evaluate"),
                            !.trace = @ \o <<Step("evaluate", TRUE),
                                             Step("loadYAML2", TRUE)>>]]
    /\ UNCHANGED <<manifest, calls, lastErr, lastLog, injected, pre, faults, implicit, env, io>>

\* resolver.go:288-292
Addons(i) ==
    /\ inv[i].pc = "addons" /\ Scheduled(i)
    /\ LET r == inv[i]
           ap == ApplyAddons(r.m)
       IN inv' = [inv EXCEPT ![i] =
             IF ap.err THEN Fail(r, <<Step("applyAddons", FALSE)>>)
             ELSE [r EXCEPT !.m = ap.m, !.pc = nextStage("addons"),
                            !.trace = Append(@, Step("applyAddons", TRUE))]]
    /\ UNCHANGED <<manifest, calls, lastErr, lastLog, injected, pre, faults, implicit, env, io>>

\* resolver.go:295-298
MarshalAfterAddons(i) ==
    /\ inv[i].pc = "marshal2" /\ Scheduled(i)
    /\ LET r == inv[i]
           mb == Marshal(r.m, "Marshal295")
       IN inv' = [inv EXCEPT ![i] =
             IF ~mb.ok THEN Fail(r, <<Step("marshal2", FALSE)>>)
             ELSE [r EXCEPT !.data = mb.val,
                            !.trace = Append(@, Step("marshal2", TRUE)),
                            !.pc = IF Len(env.vars) = 0 THEN nextStage("uservars")
                                   ELSE nextStage("marshal2")]]
    /\ UNCHANGED <<manifest, calls, lastErr, lastLog, injected, pre, faults, implicit, env, io>>

\* resolver.go:301-319: one round of the loop over the user variables
FetchUserSecret(i) ==
    /\ inv[i].pc = "uservars" /\ Scheduled(i)
    /\ LET r == inv[i]
           userVar == env.vars[r.userIdx]
           secret == GetSecret(userVar.secret)
           found == secret.exists
           data == secret.data
       IN \E keys \in Orderings({kv[1] : kv \in data}) :
          LET sv == staticVarFrom(data, keys, NoStaticVar)
              staticVars == IF sv.set THEN (userVar.name :> sv.val) ELSE <<>>
          IN inv' = [inv EXCEPT ![i] =
               IF ~found THEN Fail(r, <<Step("getUserSecret", FALSE)>>)
               ELSE IF sv.panic
               THEN [r EXCEPT !.pc = "done", !.panicked = TRUE,
                              !.trace = Append(@, Step("getUserSecret", TRUE))]
               ELSE [r EXCEPT !.userVars = Append(@, staticVars), !.userIdx = @ + 1,
                              !.trace = Append(@, Step("getUserSecret", TRUE)),
                              !.pc = IF r.userIdx = Len(env.vars)
                                     THEN nextStage("uservars") ELSE "uservars"]]
    /\ UNCHANGED <<manifest, calls, lastErr, lastLog, injected, pre, faults, implicit, env, io>>

\* resolver.go:321-329
InterpolateExplicit(i) ==
    /\ inv[i].pc = "explicit" /\ Scheduled(i)
    /\ LET r == inv[i]
           ex == InterpolateExplicitVariables(r.data, r.userVars, FALSE)
           ld == LoadYAML(ex.val)
       IN inv' = [inv EXCEPT ![i] =
             IF ~ex.ok THEN Fail(r, <<Step("interpolateExplicit", FALSE)>>)
             ELSE IF ~ld.ok
             THEN Fail(r, <<Step("interpolateExplicit", TRUE), Step("loadYAML3", FALSE)>>)
             ELSE [r EXCEPT !.data = ex.val, !.m = ld.m, !.pc = nextStage("explicit"),
                            !.trace = @ \o <<Step("interpolateExplicit", TRUE),
                                             Step("loadYAML3", TRUE)>>]]
    /\ UNCHANGED <<manifest, calls, lastErr, lastLog, injected, pre, faults, implicit, env, io>>

\* resolver.go:331-334
ValidateDNS(i) ==
    /\ inv[i].pc = "validate" /\ Scheduled(i)
    /\ LET r == inv[i]
       IN inv' = [inv EXCEPT ![i] =
             IF ~Validate(r.m) THEN Fail(r, <<Step("validate", FALSE)>>)
             ELSE [r EXCEPT !.pc = nextStage("validate"),
                            !.trace = Append(@, Step("validate", TRUE))]]
    /\ UNCHANGED <<manifest, calls, lastErr, lastLog, injected, pre, faults, implicit, env, io>>

\* resolver.go:335-337: the update block, then the return of the manifest
UpdateBlock(i) ==
    /\ inv[i].pc = "update" /\ Scheduled(i)
    /\ LET r == inv[i]
           up == PropagateGlobalUpdateBlockToIGs(r.m)
           next == nextStage("update")
       IN inv' = [inv EXCEPT ![i] =
             IF up.panic
             THEN [r EXCEPT !.pc = "done", !.panicked = TRUE,
                            !.trace = Append(@, Step("applyUpdateBlock", FALSE))]
             ELSE [r EXCEPT !.m = up.m, !.pc = next,
                            !.hasManifest = (next = "done"),
                            !.trace = @ \o (IF next = "done"
                                            THEN <<Step("applyUpdateBlock", TRUE),
                                                   Step("return", TRUE)>>
                                            ELSE <<Step("applyUpdateBlock", TRUE)>>)]]
    /\ UNCHANGED <<manifest, calls, lastErr, lastLog, injected, pre, faults, implicit, env, io>>

(***************************************************************************)
(* The resolver specification: the three entry points run on one           *)
(* BOSHDeployment against unchanging stores                                *)
(***************************************************************************)
StructChoices ==
    { [igs |-> <<InstanceGroup("web", "default", <<Job("nats", "nats")>>)>>,
       addons |-> <<AddOn("logger", <<AddOnJob("agent", "nats")>>, NoRules, NoRules)>>],
      [igs |-> <<InstanceGroup("web", "default", <<Job("x", "missing")>>)>>,
       addons |-> <<>>],
      [igs |-> <<InstanceGroup("web", "other", <<Job("nats", "nats")>>)>>,
       addons |-> <<>>],
      [igs |-> <<InstanceGroup("web", "default", <<Job("x", "missing")>>)>>,
       addons |-> <<AddOn("osaddon", <<AddOnJob("osj", "nats")>>,
                          AddOnPlacementRules({"ubuntu"}, {}, {}), NoRules)>>],
      [igs |-> <<InstanceGroup("web", "default", <<Job("nats", "nats")>>)>>,
       addons |-> <<AddOn("metrics", <<AddOnJob("exporter", "logs")>>, NoRules, NoRules)>>] }

PropChoices ==
    { [props |-> <<>>, variables |-> <<>>],
      [props |-> <<Placeholder(<<"a">>)>>, variables |-> <<>>],
      [props |-> <<Placeholder(<<"a">>)>>, variables |-> << <<"a">> >>],
      [props |-> <<Placeholder(<<"a", "/", "a">>), Placeholder(<<"a", ".", "a">>)>>,
       variables |-> <<>>],
      [props |-> <<Placeholder(<<"a", "/", "a">>), Placeholder(<<"a", ".", "a">>)>>,
       variables |-> << <<"a">> >>],
      [props |-> <<Placeholder(<<"a", "/", "a">>), Placeholder(<<"value">>)>>,
       variables |-> <<>>],
      [props |-> <<Placeholder(<<"a">>), Placeholder(<<"a", "/", "value">>)>>,
       variables |-> <<>>],
      [props |-> <<Placeholder(<<"a", "/", "a", "/", "a">>)>>, variables |-> <<>>] }

ResolverDocs ==
    {[igs |-> st.igs,
      releases |-> <<Release("nats", "1.2.3", NoReleaseStemcell),
                     Release("logs", "2.0", NoReleaseStemcell)>>,
      stemcells |-> <<Stemcell("default", "ubuntu", "1")>>,
      addons |-> st.addons, addOnsApplied |-> FALSE,
      variables |-> pr.variables, props |-> pr.props, update |-> NoUpdate] :
        st \in StructChoices, pr \in PropChoices}

ManifestResources ==
    {Resource("configmap", TRUE, TRUE, Yaml(d)) : d \in ResolverDocs}
    \cup { Resource("configmap", TRUE, TRUE, Garbage),
           Resource("configmap", FALSE, FALSE, NilBytes),
           Resource("secret", TRUE, FALSE, NilBytes),
           Resource("bogus", TRUE, TRUE, NilBytes) }

OpsResources ==
    { Resource("configmap", TRUE, TRUE,
               OpsFile(TRUE, <<AppendProp(Placeholder(<<"a", "/", "a">>))>>)),
      Resource("secret", TRUE, TRUE, OpsFile(TRUE, <<RemoveProp(1)>>)),
      Resource("url", TRUE, TRUE, OpsFile(FALSE, <<>>)),
      Resource("url", FALSE, FALSE, NilBytes) }

VarSecretName == <<"var-", "a">>
UserSecretName == <<"user">>

OtherVarSecretName == <<"var-", "value">>
OtherVarSecret == [exists |-> TRUE, json |-> FALSE, data |-> {<< <<"value">>, "other">>}]

Store(varSecret, userSecret) ==
    (VarSecretName :> varSecret) @@ (OtherVarSecretName :> OtherVarSecret)
        @@ (UserSecretName :> userSecret)

GoodVarSecret == Secret(TRUE, FALSE, {<< <<"value">>, "plain">>, << <<"a">>, "plain">>})
GoodUserSecret == Secret(TRUE, FALSE, {<< <<"password">>, "pw">>})
UserVar == [name |-> <<"a">>, secret |-> UserSecretName]

Surroundings ==
    { [secrets |-> Store(GoodVarSecret, GoodUserSecret), vars |-> <<>>, faults |-> {}],
      [secrets |-> Store(GoodVarSecret, GoodUserSecret), vars |-> <<UserVar>>, faults |-> {}],
      [secrets |-> Store(Secret(FALSE, FALSE, {}), GoodUserSecret), vars |-> <<>>,
       faults |-> {}],
      [secrets |-> Store(Secret(TRUE, FALSE, {<< <<"value">>, "plain">>}), GoodUserSecret),
       vars |-> <<>>, faults |-> {}],
      [secrets |-> Store(Secret(TRUE, TRUE, {<< <<"value">>, "{}">>, << <<"a">>, "{}">>}),
                         GoodUserSecret),
       vars |-> <<UserVar>>, faults |-> {}],
      [secrets |-> Store(Secret(TRUE, TRUE, {<< <<"value">>, "plain">>, << <<"a">>, "{}">>}),
                         GoodUserSecret),
       vars |-> <<>>, faults |-> {}],
      [secrets |-> Store(GoodVarSecret, Secret(FALSE, FALSE, {})), vars |-> <<UserVar>>,
       faults |-> {}] }
    \cup
    {[secrets |-> Store(GoodVarSecret, GoodUserSecret), vars |-> <<UserVar>>, faults |-> f] :
        f \in { {"ImplicitVariables"}, {"Marshal271"}, {"Marshal271", "EvaluateNil"},
                {"Evaluate"}, {"Marshal295"}, {"InterpolateExplicitVariables"},
                {"InterpolateExplicitVariables.Marshal"}, {"Validate"} }}

InitResolver ==
    /\ \E mr \in ManifestResources, ops \in SeqsUpTo(OpsResources, MaxOps),
          sur \in Surroundings :
          /\ env = [manifest |-> mr, ops |-> ops, vars |-> sur.vars,
                    secrets |-> sur.secrets]
          /\ faults = sur.faults
    /\ inv = [i \in Invs |-> NewInvocation(InvKinds[i])]
    /\ io = <<>>
    /\ manifest = EmptyManifest
    /\ calls = 0
    /\ lastErr = FALSE
    /\ lastLog = <<>>
    /\ injected = <<>>
    /\ pre = EmptyManifest
    /\ implicit = [called |-> FALSE, ok |-> TRUE, names |-> <<>>]

NextResolver ==
    \E i \in Invs :
        \/ FetchManifest(i)
        \/ FetchOps(i)
        \/ InterpolateOps(i)
        \/ DetailedOp(i)
        \/ Parse(i)
        \/ Labels(i)
        \/ BuildRefs(i)
        \/ FetchSecret(i)
        \/ MarshalForEvaluate(i)
        \/ EvaluateImplicit(i)
        \/ Addons(i)
        \/ MarshalAfterAddons(i)
        \/ FetchUserSecret(i)
        \/ InterpolateExplicit(i)
        \/ ValidateDNS(i)
        \/ UpdateBlock(i)

SpecResolver == InitResolver /\ [][NextResolver]_vars

(***************************************************************************)
(* The variable discovery specification: ImplicitVariables called on a     *)
(* manifest whose text holds two placeholders                              *)
(***************************************************************************)
PlaceholderNames ==
    {n \in SeqsFromTo({"a", ".", "/", "!"}, 1, MaxNameLen) : matchesVarRegexp(n)}

DeclaredChoices ==
    { <<>>, << <<"a">> >>, << <<"a", "/", "a">> >>, << <<"!", "a">>, <<"a">> >> }

VarManifests ==
    {[igs |-> <<>>, releases |-> <<>>, stemcells |-> <<>>, addons |-> <<>>,
      addOnsApplied |-> FALSE, variables |-> declared,
      props |-> <<Placeholder(n1), Placeholder(n2)>>, update |-> NoUpdate] :
        n1 \in PlaceholderNames, n2 \in PlaceholderNames, declared \in DeclaredChoices}

InitVars ==
    /\ manifest \in VarManifests
    /\ faults \in {{}, {"ImplicitVariables"}}
    /\ implicit = [called |-> FALSE, ok |-> TRUE, names |-> <<>>]
    /\ calls = 0
    /\ lastErr = FALSE
    /\ lastLog = <<>>
    /\ injected = <<>>
    /\ pre = manifest
    /\ env = <<>>
    /\ inv = <<>>
    /\ io = <<>>

CallImplicitVariables ==
    /\ ~implicit.called
    /\ LET r == ImplicitVariables(manifest)
       IN \E names \in Orderings(r.names) :
            implicit' = [called |-> TRUE, ok |-> r.ok, names |-> names]
    /\ UNCHANGED <<manifest, calls, lastErr, lastLog, injected, pre, faults, env, inv, io>>

NextVars == CallImplicitVariables

SpecVars == InitVars /\ [][NextVars]_vars

(***************************************************************************)
(* Claims about variable discovery                                         *)
(***************************************************************************)
ReturnedNames == {implicit.names[i] : i \in 1..Len(implicit.names)}
DeclaredNames == {manifest.variables[i] : i \in 1..Len(manifest.variables)}
DocumentNames == {manifest.props[i].name : i \in 1..Len(manifest.props)}

\* C8: no name returned by Manifest.ImplicitVariables is the name of an entry
\* of the manifest's Variables list, whatever placeholders occur.
C8_ExplicitImplicitDisjoint ==
    implicit.called => ReturnedNames \cap DeclaredNames = {}

C8_Witness ==
    /\ implicit.called /\ implicit.ok
    /\ ReturnedNames # {}
    /\ \E n \in DocumentNames : recordedName(n) \in DeclaredNames /\ n \notin DeclaredNames

\* The part of a name before its first dot (the whole name if it has none).
C9_BeforeFirstDot(name) ==
    LET dots == {i \in 1..Len(name) : name[i] = "."}
    IN IF dots = {} THEN name ELSE SubSeq(name, 1, SetMin(dots) - 1)

C9_Recorded(name) ==
    IF \E i \in 1..Len(name) : name[i] = "/" THEN name ELSE C9_BeforeFirstDot(name)

\* C9: a placeholder name with a slash is recorded unchanged, one without a
\* slash is recorded truncated to the part before its first dot, and the
\* returned list holds each recorded name that is not declared exactly once.
C9_DiscoveryNaming ==
    (implicit.called /\ implicit.ok) =>
        /\ ReturnedNames = {C9_Recorded(n) : n \in DocumentNames} \ DeclaredNames
        /\ \A i, j \in 1..Len(implicit.names) :
              implicit.names[i] = implicit.names[j] => i = j

\* The same statement for names that do not begin with a dot.
C9_DiscoveryNamingNoLeadingDot ==
    (implicit.called /\ implicit.ok /\ \A n \in DocumentNames : n[1] # ".") =>
        /\ ReturnedNames = {C9_Recorded(n) : n \in DocumentNames} \ DeclaredNames
        /\ \A i, j \in 1..Len(implicit.names) :
              implicit.names[i] = implicit.names[j] => i = j


(***************************************************************************)
(* Claims on the resolver                                                  *)
(***************************************************************************)
FullResolutions == {i \in Invs : InvKinds[i] \in {"Manifest", "ManifestDetailed"}}

C4_Aborted(r) == r.pc = "done" /\ r.err /\ ~r.hasManifest

\* C4: in Manifest and ManifestDetailed a step that fails is the last step
\* of the resolution, which then returns an error and no manifest; no step's
\* error is discarded, the re-serialization before the evaluation included.
C4_NoStepErrorDiscarded ==
    \A i \in FullResolutions :
        ~inv[i].panicked =>
            \A k \in 1..Len(inv[i].trace) :
                ~inv[i].trace[k][2] => (k = Len(inv[i].trace) /\ C4_Aborted(inv[i]))

C5_Stage(step) ==
    CASE step \in {"fetchManifest", "fetchOps", "addOps"} -> 1
      [] step = "interpolate" -> 2
      [] step = "loadYAML" -> 3
      [] step = "addReleasesLabels" -> 4
      [] step \in {"implicitVariables", "buildSecretRefs"} -> 5
      [] step \in {"getSecret", "bind"} -> 6
      [] step \in {"marshal", "evaluate", "loadYAML2"} -> 7
      [] step = "applyAddons" -> 8
      [] step \in {"marshal2", "getUserSecret", "interpolateExplicit", "loadYAML3"} -> 9
      [] step = "validate" -> 10
      [] step = "applyUpdateBlock" -> 11
      [] step = "return" -> 12

C5_Repeatable == {"fetchOps", "addOps", "getSecret", "bind", "getUserSecret"}

\* The stages of a trace never go back, and a step that is not a round of a
\* loop happens at most once.
C5_InOrder(trace) ==
    /\ \A k \in 1..(Len(trace) - 1) : C5_Stage(trace[k][1]) <= C5_Stage(trace[k + 1][1])
    /\ \A k, l \in 1..Len(trace) :
          (k # l /\ trace[k][1] = trace[l][1]) => trace[k][1] \in C5_Repeatable

\* The update block is propagated after the explicit variables and the DNS
\* validation, and only the return follows it.
C5_UpdateLast(trace) ==
    \A k \in 1..Len(trace) :
        trace[k][1] = "applyUpdateBlock" =>
            /\ \E l \in 1..(k - 1) : trace[l] = Step("interpolateExplicit", TRUE)
            /\ \E l \in 1..(k - 1) : trace[l] = Step("validate", TRUE)
            /\ \A l \in (k + 1)..Len(trace) : trace[l][1] = "return"

\* Everything a step follows has succeeded.
C5_AfterSuccess(trace) == \A k \in 1..(Len(trace) - 1) : trace[k][2]

\* C5: a resolution by Manifest runs its stages in the fixed order, each at
\* most once, no stage starts before what precedes it has succeeded, and the
\* propagation of the update block is the last transformation.
C5_LinearStages ==
    \A i \in Invs :
        InvKinds[i] = "Manifest" =>
            /\ C5_InOrder(inv[i].trace)
            /\ C5_UpdateLast(inv[i].trace)
            /\ C5_AfterSuccess(inv[i].trace)

C6_Batch == CHOOSE i \in Invs : InvKinds[i] = "Manifest"
C6_Detailed == CHOOSE i \in Invs : InvKinds[i] = "ManifestDetailed"

\* C6: on the same manifest text, ops sequence and stores, Manifest and
\* ManifestDetailed both fail or both return the same resolved manifest.
C6_BatchDetailedAgree ==
    (inv[C6_Batch].pc = "done" /\ inv[C6_Detailed].pc = "done") =>
        /\ inv[C6_Batch].err = inv[C6_Detailed].err
        /\ inv[C6_Batch].panicked = inv[C6_Detailed].panicked
        /\ inv[C6_Batch].hasManifest = inv[C6_Detailed].hasManifest
        /\ inv[C6_Batch].m = inv[C6_Detailed].m

C6_Witness ==
    /\ inv[C6_Batch].pc = "done" /\ inv[C6_Detailed].pc = "done"
    /\ Len(env.ops) = 2
    /\ inv[C6_Batch].hasManifest /\ inv[C6_Detailed].hasManifest
    /\ inv[C6_Batch].m = inv[C6_Detailed].m
    /\ inv[C6_Detailed].m.props # inv[C6_Detailed].parsed.props
    /\ Len(inv[C6_Detailed].m.props) = 2

C7_Dangling(m) ==
    \E g \in 1..Len(m.igs) : \E j \in 1..Len(m.igs[g].jobs) :
        \A r \in 1..Len(m.releases) : m.releases[r].name # m.igs[g].jobs[j].release

\* C7: a full resolution of a manifest holding a job whose release is no
\* entry of Releases ends with an error and without a manifest.
C7_MissingReleaseFails ==
    \A i \in FullResolutions :
        (inv[i].pc = "done" /\ C7_Dangling(inv[i].parsed)) => C4_Aborted(inv[i])

C10_Slashes(v) == {k \in 1..Len(v) : v[k] = "/"}

C10_Expected(v) ==
    IF C10_Slashes(v) = {}
    THEN [secName |-> SecretVariableName(v), key |-> <<"value">>]
    ELSE LET s == CHOOSE k \in C10_Slashes(v) : TRUE
         IN [secName |-> SecretVariableName(SubSeq(v, 1, s - 1)),
             key |-> SubSeq(v, s + 1, Len(v))]

C10_Classified(r) ==
    /\ \A n \in 1..Len(r.implicitNames) :
          LET v == r.implicitNames[n]
              e == C10_Expected(v)
          IN /\ e.secName \in DOMAIN r.refs
             /\ \E k \in 1..Len(r.refs[e.secName]) :
                   r.refs[e.secName][k] = [variable |-> v, key |-> e.key]
    /\ \A sec \in DOMAIN r.refs :
          \A k \in 1..Len(r.refs[sec]) :
              \E n \in 1..Len(r.implicitNames) :
                  /\ r.implicitNames[n] = r.refs[sec][k].variable
                  /\ C10_Expected(r.implicitNames[n]).secName = sec

\* C10: buildSecretRefs maps a name without a slash to its sanitized name
\* and the key "value", a name with one slash to the sanitized part before
\* the slash and the part after it; a name with more than one slash makes
\* the full resolution and the names-only entry point fail.
C10_Classification ==
    \A i \in Invs :
        inv[i].classified =>
            IF \E n \in 1..Len(inv[i].implicitNames) :
                  Cardinality(C10_Slashes(inv[i].implicitNames[n])) > 1
            THEN C4_Aborted(inv[i]) /\ inv[i].names = <<>>
            ELSE C10_Classified(inv[i])

C10_Witness ==
    /\ \A i \in Invs : inv[i].pc = "done" /\ inv[i].classified /\ inv[i].err
    /\ \A i \in Invs : \E n \in 1..Len(inv[i].implicitNames) :
          inv[i].implicitNames[n] = <<"a", "/", "a", "/", "a">>
    /\ \A i \in Invs : inv[i].trace[Len(inv[i].trace)] = Step("buildSecretRefs", FALSE)

C11_Allowed ==
    {"fetchManifest", "fetchOps", "addOps", "interpolate", "loadYAML",
     "implicitVariables", "buildSecretRefs", "return"}

C11_StepNames(trace) == {trace[k][1] : k \in 1..Len(trace)}

C11_StoppedAtSecret(r) ==
    /\ r.pc = "done" /\ Len(r.trace) > 0
    /\ r.trace[Len(r.trace)] \in {Step("getSecret", FALSE), Step("bind", FALSE)}

\* C11: Resolver.ImplicitVariables only fetches the manifest and the ops
\* files and applies the ops before it lists the names: it reads no secret
\* and evaluates no template, and it succeeds where the full resolution of
\* the same deployment fails on a missing secret or key.
C11_NamesOnlyReadsNoSecret ==
    \A i \in Invs :
        InvKinds[i] = "ImplicitVariables" =>
            /\ C11_StepNames(inv[i].trace) \subseteq C11_Allowed
            /\ inv[i].impVars = <<>> /\ inv[i].userVars = <<>>
            /\ (inv[i].pc = "done" /\ \E j \in FullResolutions : C11_StoppedAtSecret(inv[j]))
                   => (~inv[i].err /\ Len(inv[i].names) = Len(inv[i].implicitNames))

C11_Witness ==
    \E i \in Invs :
        /\ InvKinds[i] = "ImplicitVariables"
        /\ inv[i].pc = "done" /\ ~inv[i].err /\ Len(inv[i].names) > 0
        /\ ~GetSecret(VarSecretName).exists
        /\ \E j \in FullResolutions : inv[j].trace[Len(inv[j].trace)] = Step("getSecret", FALSE)

(***************************************************************************)
(* Manifest.Marshal at the level of the string values (manifest.go:        *)
(* 186-312).  After the first pass the document is an ordered tree of      *)
(* mapping items; it is given here by its string-valued items in document  *)
(* order.  A string is [id, len]; its SHA1 is the string itself.           *)
(***************************************************************************)
AnchorThreshold == 64

MaxOver == 2
MaxItems == 3

Str(id, len) == [id |-> id, len |-> len]
EmptyStr == Str("", 0)
NoHash == Str("none", 0)

\* yaml.MapItem: the key and the value of one mapping entry, in group ig
MapItem(ig, key, val) ==
    [ig |-> ig, key |-> key, marked |-> FALSE, hash |-> NoHash, alias |-> FALSE, val |-> val]

\* manifest.go:250-274: the walk over the items, duplicateValues being the
\* hashes met so far.  The first item of a hash has its key renamed to
\* key=hash, a later one has its value replaced by *hash.
RECURSIVE markDuplicateValues(_, _)
markDuplicateValues(items, duplicateValues) ==
    IF items = <<>> THEN [items |-> <<>>, duplicateValues |-> duplicateValues]
    ELSE
    LET item == Head(items)
        long == item.val # EmptyStr /\ item.val.len > AnchorThreshold
        sha1 == item.val
        foundValue == \E d \in duplicateValues : d.Hash = sha1
        marked == IF ~long THEN item
                  ELSE IF foundValue THEN [item EXCEPT !.alias = TRUE, !.hash = sha1]
                  ELSE [item EXCEPT !.marked = TRUE, !.hash = sha1]
        rest == markDuplicateValues(Tail(items),
                    IF long /\ ~foundValue
                    THEN duplicateValues \cup {[Hash |-> sha1, YamlKeyMarker |-> item.key]}
                    ELSE duplicateValues)
    IN [items |-> <<marked>> \o rest.items, duplicateValues |-> rest.duplicateValues]

\* goyaml.Marshal (manifest.go:204) puts a scalar that begins with "*"
\* between single quotes, as the replacement at manifest.go:210-211 expects
\* of the alias markers; the same holds of a key.
quoted(scalar) == Len(scalar) > 0 /\ scalar[1] = "*"

\* One line of the second pass: the key as emitted, then the value.
goyamlMarshal(items) ==
    [n \in 1..Len(items) |->
        [ig |-> items[n].ig, key |-> items[n].key,
         keyQuoted |-> quoted(items[n].key),
         suffix |-> IF items[n].marked THEN items[n].hash ELSE NoHash,
         anchor |-> NoHash,
         aliasText |-> IF items[n].alias THEN items[n].hash ELSE NoHash,
         aliasQuoted |-> items[n].alias,
         val |-> IF items[n].alias THEN EmptyStr ELSE items[n].val]]

\* manifest.go:209-214 for one duplicate value on one line: '*hash' loses
\* its quotes, and the text "key=hash: " becomes "key: &hash ".  A quoted
\* key ends in a quote before the colon and is not such a text.
replaceMarkers(line, v) ==
    IF line.aliasQuoted /\ line.aliasText = v.Hash
    THEN [line EXCEPT !.aliasQuoted = FALSE]
    ELSE IF line.suffix = v.Hash /\ line.key = v.YamlKeyMarker /\ ~line.keyQuoted
    THEN [line EXCEPT !.suffix = NoHash, !.anchor = v.Hash]
    ELSE line

RECURSIVE replaceAll(_, _)
replaceAll(lines, duplicateValues) ==
    IF duplicateValues = {} THEN lines
    ELSE LET v == CHOOSE d \in duplicateValues : TRUE
         IN replaceAll([n \in 1..Len(lines) |-> replaceMarkers(lines[n], v)],
                       duplicateValues \ {v})

\* Manifest.Marshal (manifest.go:186-217) on the items of a document
MarshalItems(items) ==
    LET walked == markDuplicateValues(items, {})
    IN replaceAll(goyamlMarshal(walked.items), walked.duplicateValues)

\* LoadYAML (manifest.go:172-183) on the lines Marshal wrote: an anchor
\* names the value of its line, an alias stands for the value of the anchor
\* defined above it, a quoted '*hash' is that string, and a key with a
\* suffix that was not replaced is the key "key=hash".
RECURSIVE loadLines(_, _)
loadLines(lines, anchors) ==
    IF lines = <<>> THEN [ok |-> TRUE, items |-> <<>>]
    ELSE
    LET line == Head(lines)
        isAlias == line.aliasText # NoHash /\ ~line.aliasQuoted
        defined == line.aliasText \in anchors
        item == [ig |-> line.ig, key |-> line.key, suffix |-> line.suffix,
                 marker |-> line.aliasText # NoHash /\ line.aliasQuoted,
                 val |-> IF line.aliasText # NoHash THEN line.aliasText ELSE line.val]
        rest == loadLines(Tail(lines),
                    IF line.anchor # NoHash THEN anchors \cup {line.anchor} ELSE anchors)
    IN IF isAlias /\ ~defined THEN [ok |-> FALSE, items |-> <<>>]
       ELSE IF ~rest.ok THEN rest
       ELSE [ok |-> TRUE, items |-> <<item>> \o rest.items]

LoadYAMLLines(lines) == loadLines(lines, {})

(***************************************************************************)
(* The serialization specification: a document is marshalled, then loaded  *)
(***************************************************************************)
KeyChoices == { <<"c">>, <<"k">>, <<"*", "k">> }

StrChoices ==
    {EmptyStr} \cup
    {Str(id, len) : id \in {"p", "q"},
                    len \in (AnchorThreshold - 1)..(AnchorThreshold - 1 + MaxOver)}

\* Documents: up to MaxItems string values under two instance groups, no key
\* twice in one group, the groups in their order.
ItemSeqs ==
    {items \in SeqsFromTo({MapItem(ig, key, val) :
                              ig \in 1..2, key \in KeyChoices, val \in StrChoices},
                          1, MaxItems) :
        /\ \A a, b \in 1..Len(items) :
              a < b => /\ items[a].ig <= items[b].ig
                       /\ ~(items[a].ig = items[b].ig /\ items[a].key = items[b].key)}

InitMarshal ==
    /\ \E items \in ItemSeqs :
          io = [pc |-> "start", items |-> items, lines |-> <<>>,
                loaded |-> [ok |-> TRUE, items |-> <<>>]]
    /\ manifest = EmptyManifest
    /\ calls = 0
    /\ lastErr = FALSE
    /\ lastLog = <<>>
    /\ injected = <<>>
    /\ pre = EmptyManifest
    /\ faults = {}
    /\ implicit = [called |-> FALSE, ok |-> TRUE, names |-> <<>>]
    /\ env = <<>>
    /\ inv = <<>>

CallMarshal ==
    /\ io.pc = "start"
    /\ io' = [io EXCEPT !.pc = "marshalled", !.lines = MarshalItems(io.items)]
    /\ UNCHANGED <<manifest, calls, lastErr, lastLog, injected, pre, faults, implicit, env, inv>>

CallLoadYAML ==
    /\ io.pc = "marshalled"
    /\ io' = [io EXCEPT !.pc = "loaded", !.loaded = LoadYAMLLines(io.lines)]
    /\ UNCHANGED <<manifest, calls, lastErr, lastLog, injected, pre, faults, implicit, env, inv>>

NextMarshal == CallMarshal \/ CallLoadYAML

SpecMarshal == InitMarshal /\ [][NextMarshal]_vars

(***************************************************************************)
(* Claims about the serialization                                          *)
(***************************************************************************)
C12_Occurrences(s) == {n \in 1..Len(io.items) : io.items[n].val = s}

C12_Shared(s) == \E a, b \in C12_Occurrences(s) : io.items[a].ig # io.items[b].ig

C12_Restored(n) ==
    /\ io.loaded.ok
    /\ io.loaded.items[n].val = io.items[n].val
    /\ ~io.loaded.items[n].marker

C12_Anchored(s, minLen) ==
    (s.len >= minLen /\ C12_Shared(s)) =>
        LET first == SetMin(C12_Occurrences(s))
        IN /\ io.pc # "start" =>
                /\ {n \in 1..Len(io.lines) : io.lines[n].anchor = s} = {first}
                /\ \A n \in C12_Occurrences(s) \ {first} :
                      io.lines[n].aliasText = s /\ ~io.lines[n].aliasQuoted
           /\ io.pc = "loaded" => \A n \in C12_Occurrences(s) : C12_Restored(n)

\* C12: a string value of at least 64 characters that is the value of an
\* item under two instance groups is written with one anchor, on its first
\* item, and as an alias on every later item, and loading the output gives
\* the string back at every item.
C12_AnchorCorrectness ==
    \A s \in StrChoices : C12_Anchored(s, AnchorThreshold)

C13_NoDuplicateLong ==
    \A a, b \in 1..Len(io.items) :
        (a # b /\ io.items[a].val = io.items[b].val) =>
            io.items[a].val.len <= AnchorThreshold

C13_Equal(loaded, item) ==
    /\ loaded.ig = item.ig /\ loaded.key = item.key /\ loaded.suffix = NoHash
    /\ loaded.val = item.val /\ ~loaded.marker

\* C13: when no long string value occurs twice, loading what Marshal wrote
\* succeeds and gives the document back, item by item.
C13_RoundTrip ==
    (io.pc = "loaded" /\ C13_NoDuplicateLong) =>
        /\ io.loaded.ok
        /\ Len(io.loaded.items) = Len(io.items)
        /\ \A n \in 1..Len(io.items) : C13_Equal(io.loaded.items[n], io.items[n])

(***************************************************************************)
(* GetReleaseImage (manifest.go:325-374).  A URL is the sequence of its    *)
(* characters, an image location the sequence of its parts.                *)
(***************************************************************************)
ReleaseAt(name, version, url, stemcell) ==
    [name |-> name, version |-> version, url |-> url, stemcell |-> stemcell]

\* strings.TrimRight(s, "/")
RECURSIVE TrimRight(_)
TrimRight(url) ==
    IF url # <<>> /\ url[Len(url)] = "/" THEN TrimRight(SubSeq(url, 1, Len(url) - 1))
    ELSE url

\* fmt.Sprintf("%s/%s:%s-%s", name, release.Name, stemcellVersion, release.Version)
ImageLocation(name, releaseName, os, stemcellVersion, releaseVersion) ==
    name \o <<"/", releaseName, ":", os, "-", stemcellVersion, "-", releaseVersion>>

\* A plausible slip: the stemcell pin of the release is not looked at.
GetReleaseImageUnpinned(m, instanceGroupName, jobName) ==
    LET igIdx == {i \in 1..Len(m.igs) : m.igs[i].name = instanceGroupName}
    IN IF igIdx = {} THEN [ok |-> FALSE, val |-> <<>>]
       ELSE
       LET instanceGroup == m.igs[SetMin(igIdx)]
           scIdx == {i \in 1..Len(m.stemcells) :
                        m.stemcells[i].alias = instanceGroup.stemcell}
           jobIdx == {i \in 1..Len(instanceGroup.jobs) :
                        instanceGroup.jobs[i].name = jobName}
       IN IF jobIdx = {} THEN [ok |-> FALSE, val |-> <<>>]
          ELSE
          LET job == instanceGroup.jobs[SetMin(jobIdx)]
              relIdx == {i \in 1..Len(m.releases) : m.releases[i].name = job.release}
          IN IF relIdx = {} THEN [ok |-> FALSE, val |-> <<>>]
             ELSE
             LET release == m.releases[SetMin(relIdx)]
             IN IF scIdx = {} THEN [ok |-> FALSE, val |-> <<>>]
                ELSE LET stemcell == m.stemcells[SetMax(scIdx)]
                     IN [ok |-> TRUE,
                         val |-> ImageLocation(TrimRight(release.url), release.name,
                                               stemcell.os, stemcell.version,
                                               release.version)]

GetReleaseImage(m, instanceGroupName, jobName) ==
    LET igIdx == {i \in 1..Len(m.igs) : m.igs[i].name = instanceGroupName}
    IN IF igIdx = {} THEN [ok |-> FALSE, val |-> <<>>]
       ELSE
       LET instanceGroup == m.igs[SetMin(igIdx)]
           scIdx == {i \in 1..Len(m.stemcells) :
                        m.stemcells[i].alias = instanceGroup.stemcell}
           jobIdx == {i \in 1..Len(instanceGroup.jobs) :
                        instanceGroup.jobs[i].name = jobName}
       IN IF jobIdx = {} THEN [ok |-> FALSE, val |-> <<>>]
          ELSE
          LET job == instanceGroup.jobs[SetMin(jobIdx)]
              relIdx == {i \in 1..Len(m.releases) : m.releases[i].name = job.release}
          IN IF relIdx = {} THEN [ok |-> FALSE, val |-> <<>>]
             ELSE
             LET release == m.releases[SetMin(relIdx)]
                 name == TrimRight(release.url)
             IN IF release.stemcell.set
                THEN [ok |-> TRUE,
                      val |-> ImageLocation(name, release.name, release.stemcell.os,
                                            release.stemcell.version, release.version)]
                ELSE IF scIdx = {} THEN [ok |-> FALSE, val |-> <<>>]
                ELSE LET stemcell == m.stemcells[SetMax(scIdx)]
                     IN [ok |-> TRUE,
                         val |-> ImageLocation(name, release.name, stemcell.os,
                                               stemcell.version, release.version)]

(***************************************************************************)
(* The image specification: GetReleaseImage and GetJobOS on one manifest   *)
(***************************************************************************)
UrlChoices == { <<>>, <<"u">>, <<"u", "/">>, <<"u", "/", "/">>, <<"u", "/", "u">> }

ImageIGSeqs ==
    UNION {{igs \in [1..n -> {InstanceGroup(name, alias, <<Job("nats", rel)>>) :
                                name \in {IGNames[i] : i \in 1..n},
                                alias \in {"default", "other"},
                                rel \in {"nats", "missing"}}] :
               \A i \in 1..n : igs[i].name = IGNames[i]} : n \in 1..MaxIGs}

ImageManifests ==
    {[igs |-> igs,
      releases |-> <<ReleaseAt("nats", "1.2.3", url, st)>>,
      stemcells |-> scs,
      addons |-> <<>>, addOnsApplied |-> FALSE, variables |-> <<>>, props |-> <<>>,
      update |-> NoUpdate] :
        igs \in ImageIGSeqs, url \in UrlChoices,
        st \in {NoReleaseStemcell, ReleaseStemcell("centos", "7")},
        scs \in { <<Stemcell("default", "ubuntu", "1")>>,
                  <<Stemcell("default", "ubuntu", "1"), Stemcell("other", "suse", "2")>> }}

InitImage ==
    /\ manifest \in ImageManifests
    /\ \E ig \in {IGNames[i] : i \in 1..(MaxIGs + 1)}, job \in {"nats", "absent"} :
          io = [instanceGroupName |-> ig, jobName |-> job,
                image |-> [called |-> FALSE, ok |-> FALSE, val |-> <<>>],
                os |-> [called |-> FALSE, ok |-> FALSE, val |-> ""]]
    /\ calls = 0
    /\ lastErr = FALSE
    /\ lastLog = <<>>
    /\ injected = <<>>
    /\ pre = manifest
    /\ faults = {}
    /\ implicit = [called |-> FALSE, ok |-> TRUE, names |-> <<>>]
    /\ env = <<>>
    /\ inv = <<>>

CallGetReleaseImage ==
    /\ ~io.image.called
    /\ LET r == GetReleaseImage(manifest, io.instanceGroupName, io.jobName)
       IN io' = [io EXCEPT !.image = [called |-> TRUE, ok |-> r.ok, val |-> r.val]]
    /\ UNCHANGED <<manifest, calls, lastErr, lastLog, injected, pre, faults, implicit, env, inv>>

CallGetJobOS ==
    /\ ~io.os.called
    /\ LET r == GetJobOS(manifest, io.instanceGroupName, io.jobName)
       IN io' = [io EXCEPT !.os = [called |-> TRUE, ok |-> r.ok, val |-> r.val]]
    /\ UNCHANGED <<manifest, calls, lastErr, lastLog, injected, pre, faults, implicit, env, inv>>

NextImage == CallGetReleaseImage \/ CallGetJobOS

SpecImage == InitImage /\ [][NextImage]_vars

\* What the claim names for the group and job asked for: the release of the
\* job with the pin of the release, else with a stemcell of the group's alias.
C14_Resolved ==
    {src \in [release : {manifest.releases[r] : r \in 1..Len(manifest.releases)},
              os : {"ubuntu", "suse", "centos"}, version : {"1", "2", "7"}] :
        \E g \in 1..Len(manifest.igs) :
           /\ manifest.igs[g].name = io.instanceGroupName
           /\ \E j \in 1..Len(manifest.igs[g].jobs) :
                 /\ manifest.igs[g].jobs[j].name = io.jobName
                 /\ manifest.igs[g].jobs[j].release = src.release.name
           /\ IF src.release.stemcell.set
              THEN src.os = src.release.stemcell.os
                   /\ src.version = src.release.stemcell.version
              ELSE \E c \in 1..Len(manifest.stemcells) :
                      /\ manifest.stemcells[c].alias = manifest.igs[g].stemcell
                      /\ src.os = manifest.stemcells[c].os
                      /\ src.version = manifest.stemcells[c].version}

C14_NoTrailingSlash(url) ==
    CHOOSE n \in SeqsUpTo({"u", "/"}, MaxNameLen + 1) :
        /\ Len(n) <= Len(url) /\ SubSeq(url, 1, Len(n)) = n
        /\ (n # <<>> => n[Len(n)] # "/")
        /\ \A k \in (Len(n) + 1)..Len(url) : url[k] = "/"

\* C14: GetReleaseImage returns url/name:os-stemcellversion-releaseversion
\* with the trailing slashes of the URL removed, os and stemcell version
\* from the release's pin or else from the stemcell of the group's alias,
\* and an error when group, job, release or that stemcell is missing;
\* GetJobOS returns the os of it and fails in the same cases.
C14_ReleaseImage ==
    /\ io.image.called =>
          /\ io.image.ok <=> C14_Resolved # {}
          /\ io.image.ok =>
                \E src \in C14_Resolved :
                    io.image.val = C14_NoTrailingSlash(src.release.url)
                        \o <<"/", src.release.name, ":", src.os, "-", src.version, "-",
                             src.release.version>>
    /\ io.os.called =>
          /\ io.os.ok <=> C14_Resolved # {}
          /\ io.os.ok => \E src \in C14_Resolved : io.os.val = src.os

C14_Witness ==
    /\ io.image.called /\ io.image.ok /\ io.os.called /\ io.os.ok
    /\ io.image.val = <<"u", "/", "nats", ":", "ubuntu", "-", "1", "-", "1.2.3">>
    /\ io.os.val = "ubuntu"
    /\ manifest.releases[1].url = <<"u", "/", "/">>

(***************************************************************************)
(* The update block specification: PropagateGlobalUpdateBlockToIGs called  *)
(* on manifests with and without a global block                            *)
(***************************************************************************)
UpdateChoices(canary, watch, serial) ==
    {NoUpdate} \cup {Update(c, w, s) : c \in {"", canary}, w \in {"", watch},
                                       s \in {"nil", serial}}

UpdateManifests ==
    {[igs |-> igs, releases |-> <<>>, stemcells |-> <<>>, addons |-> <<>>,
      addOnsApplied |-> FALSE, variables |-> <<>>, props |-> <<>>, update |-> global] :
        global \in UpdateChoices("30000", "60000", "true"),
        igs \in UNION {[1..n -> {[InstanceGroup("g", "default", <<>>)
                                     EXCEPT !.update = u] :
                                   u \in UpdateChoices("1000", "2000", "false")}] :
                          n \in 1..MaxIGs}}

InitUpdate ==
    /\ manifest \in UpdateManifests
    /\ pre = manifest
    /\ calls = 0
    /\ io = [panicked |-> FALSE]
    /\ lastErr = FALSE
    /\ lastLog = <<>>
    /\ injected = <<>>
    /\ faults = {}
    /\ implicit = [called |-> FALSE, ok |-> TRUE, names |-> <<>>]
    /\ env = <<>>
    /\ inv = <<>>

CallPropagate ==
    /\ calls < MaxCalls /\ ~io.panicked
    /\ LET r == PropagateGlobalUpdateBlockToIGs(manifest)
       IN /\ manifest' = r.m
          /\ io' = [panicked |-> r.panic]
    /\ pre' = manifest
    /\ calls' = calls + 1
    /\ UNCHANGED <<lastErr, lastLog, injected, faults, implicit, env, inv>>

NextUpdate == CallPropagate

SpecUpdate == InitUpdate /\ [][NextUpdate]_vars

C15_Merged(had, global, field, unset) ==
    IF had[field] # unset THEN had[field] ELSE global[field]

\* C15: after the propagation a group that had no update block has the
\* values of the global one; a group that had one keeps the sub-fields it
\* had set and has the global value in those it had left unset; the global
\* block is unchanged.
C15_FieldLevelMerge ==
    calls > 0 =>
        /\ manifest.update = pre.update
        /\ Len(manifest.igs) = Len(pre.igs)
        /\ \A g \in 1..Len(pre.igs) :
              LET had == pre.igs[g].update
                  has == manifest.igs[g].update
              IN /\ (had.set /\ had.canaryWatchTime # "")
                        => has.canaryWatchTime = had.canaryWatchTime
                 /\ (had.set /\ had.updateWatchTime # "")
                        => has.updateWatchTime = had.updateWatchTime
                 /\ (had.set /\ had.serial # "nil") => has.serial = had.serial
                 /\ (~io.panicked /\ ~had.set) => has = pre.update
                 /\ (~io.panicked /\ had.set) =>
                       /\ has.set
                       /\ has.canaryWatchTime =
                             C15_Merged(had, pre.update, "canaryWatchTime", "")
                       /\ has.updateWatchTime =
                             C15_Merged(had, pre.update, "updateWatchTime", "")
                       /\ has.serial = C15_Merged(had, pre.update, "serial", "nil")

C15_Witness ==
    /\ calls = 1 /\ ~io.panicked /\ Len(pre.igs) = 2
    /\ pre.update = Update("30000", "60000", "true")
    /\ pre.igs[1].update = Update("", "", "false")
    /\ manifest.igs[1].update = Update("30000", "60000", "false")
    /\ ~pre.igs[2].update.set
    /\ manifest.igs[2].update = pre.update

(***************************************************************************)
(* ListMissingProviders (manifest.go:589-630).  A provides or consumes     *)
(* entry of a job is a value that is a map or not; a map has entries       *)
(* <<key, isString, name>>.                                                *)
(***************************************************************************)
NotAMap == [isMap |-> FALSE, entries |-> {}]
LinkMap(entries) == [isMap |-> TRUE, entries |-> entries]

LinkJob(name, provides, consumes) ==
    [name |-> name, release |-> "nats", isAddon |-> FALSE,
     provides |-> provides, consumes |-> consumes]

\* listProviderNames (manifest.go:611-630): providerNames is a map to false,
\* providerProperties the values of the job's map in the order visited.
RECURSIVE listProviderNames(_, _, _)
listProviderNames(providerNames, providerProperties, providerKey) ==
    IF providerProperties = <<>> THEN providerNames
    ELSE
    LET p == Head(providerProperties)
        found == {e \in p.entries : e[1] = providerKey}
        nameVal == CHOOSE e \in found : TRUE
        name == IF nameVal[2] THEN nameVal[3] ELSE ""
        skip == ~p.isMap \/ found = {} \/ name = ""
    IN listProviderNames(
           IF skip THEN providerNames
           ELSE [n \in DOMAIN providerNames \cup {name} |-> FALSE],
           Tail(providerProperties), providerKey)

RECURSIVE listJobsFrom(_, _, _)
listJobsFrom(jobs, names, side) ==
    IF jobs = <<>> THEN names
    ELSE listJobsFrom(Tail(jobs),
             IF side = "as" THEN listProviderNames(names, Head(jobs).provides, "as")
             ELSE listProviderNames(names, Head(jobs).consumes, "from"),
             side)

\* A plausible slip: the provided names are not removed.
ListMissingProvidersKeepingProvided(m) ==
    listJobsFrom(ConcatAll([g \in 1..Len(m.igs) |-> m.igs[g].jobs]), <<>>, "from")

ListMissingProviders(m) ==
    LET jobs == ConcatAll([g \in 1..Len(m.igs) |-> m.igs[g].jobs])
        provideAsNames == listJobsFrom(jobs, <<>>, "as")
        consumeFromNames == listJobsFrom(jobs, <<>>, "from")
    IN [n \in DOMAIN consumeFromNames \ DOMAIN provideAsNames |-> FALSE]

(***************************************************************************)
(* The links specification: ListMissingProviders on one manifest           *)
(***************************************************************************)
ProvidesChoices ==
    { <<>>, <<NotAMap>>, <<LinkMap({<<"as", TRUE, "x">>})>>,
      <<LinkMap({<<"as", TRUE, "y">>})>>, <<LinkMap({<<"as", TRUE, "">>})>>,
      <<LinkMap({<<"from", TRUE, "x">>})>> }

ConsumesChoices ==
    { <<>>, <<NotAMap>>, <<LinkMap({<<"from", TRUE, "x">>})>>,
      <<LinkMap({<<"from", TRUE, "y">>}), LinkMap({<<"from", TRUE, "x">>})>>,
      <<LinkMap({<<"from", TRUE, "">>})>>, <<LinkMap({<<"from", FALSE, "5">>})>>,
      <<LinkMap({<<"as", TRUE, "y">>})>> }

LinkManifests ==
    {[igs |-> igs, releases |-> <<>>, stemcells |-> <<>>, addons |-> <<>>,
      addOnsApplied |-> FALSE, variables |-> <<>>, props |-> <<>>, update |-> NoUpdate] :
        igs \in UNION {[1..n -> {InstanceGroup("g", "default", <<LinkJob("j", pr, co)>>) :
                                   pr \in ProvidesChoices, co \in ConsumesChoices}] :
                          n \in 1..MaxIGs}}

InitLinks ==
    /\ manifest \in LinkManifests
    /\ io = [called |-> FALSE, out |-> <<>>]
    /\ pre = manifest
    /\ calls = 0
    /\ lastErr = FALSE
    /\ lastLog = <<>>
    /\ injected = <<>>
    /\ faults = {}
    /\ implicit = [called |-> FALSE, ok |-> TRUE, names |-> <<>>]
    /\ env = <<>>
    /\ inv = <<>>

CallListMissingProviders ==
    /\ ~io.called
    /\ io' = [called |-> TRUE, out |-> ListMissingProviders(manifest)]
    /\ UNCHANGED <<manifest, calls, lastErr, lastLog, injected, pre, faults, implicit, env, inv>>

NextLinks == CallListMissingProviders

SpecLinks == InitLinks /\ [][NextLinks]_vars

C16_Jobs == UNION {{manifest.igs[g].jobs[j] : j \in 1..Len(manifest.igs[g].jobs)} :
                      g \in 1..Len(manifest.igs)}

C16_Named(side, key) ==
    {name \in {"x", "y"} :
        \E job \in C16_Jobs : \E l \in 1..Len(job[side]) :
            /\ job[side][l].isMap
            /\ <<key, TRUE, name>> \in job[side][l].entries}

\* C16: ListMissingProviders returns exactly the non-empty from names of the
\* consumes entries of all jobs that are the as name of no provides entry
\* of any job.
C16_MissingProviders ==
    io.called =>
        DOMAIN io.out = C16_Named("consumes", "from") \ C16_Named("provides", "as")

C16_Witness ==
    /\ io.called /\ DOMAIN io.out = {"y"}
    /\ "x" \in C16_Named("consumes", "from") /\ "x" \in C16_Named("provides", "as")
    /\ Len(manifest.igs) = 2

C17_External ==
    {"fetchManifest", "fetchOps", "addOps", "interpolate", "getSecret", "evaluate",
     "getUserSecret", "interpolateExplicit"}

C17_FailedCalls(trace) ==
    {k \in 1..Len(trace) : trace[k][1] \in C17_External /\ ~trace[k][2]}

\* C17: in a resolution a failed external call (resource fetch, secret get,
\* adding ops, evaluation) is the last step: it is not issued again, no
\* other external call follows it, and the error is returned.
C17_NoRetryFailFast ==
    \A i \in Invs :
        \A k \in C17_FailedCalls(inv[i].trace) :
            /\ k = Len(inv[i].trace)
            /\ inv[i].pc = "done" /\ inv[i].err
            /\ ~inv[i].hasManifest /\ inv[i].names = <<>>

C17_Witness ==
    \E i \in FullResolutions :
        /\ inv[i].pc = "done" /\ inv[i].err
        /\ inv[i].trace[Len(inv[i].trace)] = Step("getSecret", FALSE)
        /\ Step("interpolate", TRUE) \in {inv[i].trace[k] : k \in 1..Len(inv[i].trace)}
        /\ Step("fetchOps", TRUE) \in {inv[i].trace[k] : k \in 1..Len(inv[i].trace)}

(***************************************************************************)
(* The concurrent specification: on one Resolver every entry point is run  *)
(* alone, then the three entry points are run again, interleaved           *)
(***************************************************************************)
ConcurrentDocs ==
    {d \in ResolverDocs :
        /\ d.igs = <<InstanceGroup("web", "default", <<Job("nats", "nats")>>)>>
        /\ d.addons # <<>> /\ d.addons[1].name = "logger"
        /\ d.variables = <<>>
        /\ d.props = <<Placeholder(<<"a">>)>>}

ConcurrentOps ==
    {r \in OpsResources :
        r.found /\ r.type = "configmap" /\ r.data.kind = "ops" /\ r.data.wellFormed}

ConcurrentStores ==
    { Store(GoodVarSecret, GoodUserSecret),
      Store(Secret(FALSE, FALSE, {}), GoodUserSecret) }

InitConcurrent ==
    /\ \E d \in ConcurrentDocs, ops \in SeqsUpTo(ConcurrentOps, MaxOps),
          store \in ConcurrentStores :
          env = [manifest |-> Resource("configmap", TRUE, TRUE, Yaml(d)), ops |-> ops,
                 vars |-> <<UserVar>>, secrets |-> store]
    /\ faults = {}
    /\ inv = [i \in 1..(2 * Len(InvKinds)) |->
                 NewInvocation(InvKinds[((i - 1) % Len(InvKinds)) + 1])]
    /\ io = [env |-> env]
    /\ manifest = EmptyManifest
    /\ calls = 0
    /\ lastErr = FALSE
    /\ lastLog = <<>>
    /\ injected = <<>>
    /\ pre = EmptyManifest
    /\ implicit = [called |-> FALSE, ok |-> TRUE, names |-> <<>>]

NextConcurrent ==
    \E i \in DOMAIN inv :
        \/ FetchManifest(i)
        \/ FetchOps(i)
        \/ InterpolateOps(i)
        \/ DetailedOp(i)
        \/ Parse(i)
        \/ Labels(i)
        \/ BuildRefs(i)
        \/ FetchSecret(i)
        \/ MarshalForEvaluate(i)
        \/ EvaluateImplicit(i)
        \/ Addons(i)
        \/ MarshalAfterAddons(i)
        \/ FetchUserSecret(i)
        \/ InterpolateExplicit(i)
        \/ ValidateDNS(i)
        \/ UpdateBlock(i)

SpecConcurrent == InitConcurrent /\ [][NextConcurrent]_vars

C18_Interleaved == DOMAIN inv \ Invs

C18_Alone(i) == ((i - 1) % Len(InvKinds)) + 1

C18_Bag(names) == [n \in {names[k] : k \in 1..Len(names)} |->
                      Cardinality({k \in 1..Len(names) : names[k] = n})]

C18_SameResult(a, b) ==
    /\ a.err = b.err
    /\ a.panicked = b.panicked
    /\ a.hasManifest = b.hasManifest
    /\ a.m = b.m
    /\ C18_Bag(a.names) = C18_Bag(b.names)

\* C18: an invocation that runs interleaved with others on the Resolver
\* returns what the same entry point returns when it runs alone against the
\* same stores, and the stores and the fields of the Resolver stay as they
\* were at construction.
C18_Independent ==
    /\ env = io.env
    /\ \A i \in C18_Interleaved :
          inv[i].pc = "done" => C18_SameResult(inv[i], inv[C18_Alone(i)])

C18_Witness ==
    /\ Len(env.ops) = 2
    /\ \E i, j, k \in C18_Interleaved :
          /\ inv[i].pc = "done" /\ ~inv[i].err /\ Len(inv[i].names) > 0
          /\ inv[j].pc # "done" /\ inv[j].ops # <<>> /\ j < i
          /\ inv[k].pc # "done" /\ inv[k].trace # <<>> /\ k # j

C19_Names(r) == {r.implicitNames[n] : n \in 1..Len(r.implicitNames)}

C19_SecretNames(r) == {classify(v).secName : v \in C19_Names(r)}

C19_Fetches(trace) == Cardinality({k \in 1..Len(trace) : trace[k][1] = "getSecret"})

C19_BindingDone(r) == \E k \in 1..Len(r.trace) : r.trace[k][1] = "marshal"

C19_ValueFor(v) ==
    LET c == classify(v)
        secret == GetSecret(c.secName)
        val == ValueOf(secret.data, c.key)
    IN IF secret.json THEN jsonUnmarshal(val).val ELSE Scalar(val)

C19_KeyAbsent(r) ==
    \E v \in C19_Names(r) :
        /\ GetSecret(classify(v).secName).exists
        /\ ~HasKey(GetSecret(classify(v).secName).data, classify(v).key)

\* C19: when a full resolution has bound its implicit variables, every
\* secret name of the classification was fetched exactly once and the
\* binding table holds, under each discovered name, the value of that name's
\* key in its secret; a resolution that classified names of which one lacks
\* its key in an existing secret ends with an error.
C19_GroupedBySecret ==
    \A i \in FullResolutions :
        LET r == inv[i]
        IN /\ C19_BindingDone(r) =>
                /\ C19_Fetches(r.trace) = Cardinality(C19_SecretNames(r))
                /\ DOMAIN r.impVars = C19_Names(r)
                /\ \A v \in C19_Names(r) : r.impVars[v] = C19_ValueFor(v)
           /\ (r.pc = "done" /\ C19_KeyAbsent(r)
                 /\ (\E k \in 1..Len(r.trace) : r.trace[k] = Step("buildSecretRefs", TRUE)))
                => r.err

C19_Witness ==
    /\ \A i \in FullResolutions : inv[i].pc = "done" /\ ~inv[i].err
    /\ \E i \in FullResolutions :
          /\ Cardinality(C19_Names(inv[i])) = 2
          /\ Cardinality(C19_SecretNames(inv[i])) = 1
          /\ C19_Fetches(inv[i].trace) = 1
          /\ DOMAIN inv[i].impVars = {<<"a">>, <<"a", "/", "a">>}

C19_TwoSecrets ==
    \E i \in FullResolutions :
        /\ inv[i].pc = "done" /\ ~inv[i].err
        /\ Cardinality(C19_SecretNames(inv[i])) = 2
        /\ C19_Fetches(inv[i].trace) = 2
        /\ \E v, w \in C19_Names(inv[i]) : inv[i].impVars[v] # inv[i].impVars[w]

(***************************************************************************)
(* The binding of one explicit variable, built from the data of its secret *)
(* (resolver.go:309-317 and 419-426)                                       *)
(***************************************************************************)
FieldChoices == {<<"password">>, <<"ca">>, <<"certificate">>}
FieldValues == {"x", "y"}

SecretDatas ==
    UNION {[fs -> FieldValues] : fs \in SUBSET FieldChoices}

\* the data of a secret as the set of its <<key, value>> pairs
DataOf(d) == {<<f, d[f]>> : f \in DOMAIN d}

InitBinding ==
    /\ \E d \in SecretDatas :
          io = [op |-> "none", arg |-> DataOf(d), order |-> <<>>, out |-> NoStaticVar]
    /\ manifest = EmptyManifest
    /\ pre = EmptyManifest
    /\ calls = 0
    /\ lastErr = FALSE
    /\ lastLog = <<>>
    /\ injected = <<>>
    /\ faults = {}
    /\ implicit = [called |-> FALSE, ok |-> TRUE, names |-> <<>>]
    /\ env = <<>>
    /\ inv = <<>>

\* resolver.go:309-317: the loop over secret.Data in applyVariables
CallApplyVariablesBinding ==
    /\ io.op = "none"
    /\ \E keys \in Orderings({kv[1] : kv \in io.arg}) :
          io' = [io EXCEPT !.op = "applyVariables", !.order = keys,
                           !.out = staticVarFrom(io.arg, keys, NoStaticVar)]
    /\ UNCHANGED <<manifest, calls, lastErr, lastLog, injected, pre, faults, implicit,
                   env, inv>>

\* resolver.go:418-426: the loop over varSecretData in
\* InterpolateVariableFromSecrets
CallInterpolateVariableFromSecretsBinding ==
    /\ io.op = "none"
    /\ \E keys \in Orderings({kv[1] : kv \in io.arg}) :
          io' = [io EXCEPT !.op = "InterpolateVariableFromSecrets", !.order = keys,
                           !.out = staticVarFrom(io.arg, keys, NoStaticVar)]
    /\ UNCHANGED <<manifest, calls, lastErr, lastLog, injected, pre, faults, implicit,
                   env, inv>>

NextBinding == CallApplyVariablesBinding \/ CallInterpolateVariableFromSecretsBinding

SpecBinding == InitBinding /\ [][NextBinding]_vars

C20_Expected(data) ==
    IF HasKey(data, <<"password">>)
    THEN [panic |-> FALSE, set |-> TRUE, val |-> Scalar(ValueOf(data, <<"password">>))]
    ELSE IF data = {} THEN NoStaticVar
    ELSE [panic |-> FALSE, set |-> TRUE, val |-> Map(data)]

\* C20: the binding built for an explicit variable is the scalar value of
\* the password field when the secret has one and otherwise the map of all
\* its fields; building it never fails, whatever the order in which the
\* fields of the secret are visited.
C20_BindingFunctionOfData ==
    io.op # "none" => (~io.out.panic /\ io.out = C20_Expected(io.arg))

\* The same statement for the secrets that do not hold password together
\* with other fields.
C20_BindingWithoutMixedPassword ==
    (io.op # "none"
       /\ ~(HasKey(io.arg, <<"password">>) /\ Cardinality(io.arg) > 1))
        => (~io.out.panic /\ io.out = C20_Expected(io.arg))

C20_PasswordFirst ==
    /\ io.op = "applyVariables"
    /\ io.order = << <<"password">>, <<"ca">> >>
    /\ io.out.panic

C20_PasswordLast ==
    /\ io.op = "applyVariables"
    /\ io.order = << <<"ca">>, <<"password">> >>
    /\ io.out = C20_Expected(io.arg)

C21_LabelFor(m, ig, job, release) ==
    LET scIdx == {i \in 1..Len(m.stemcells) : m.stemcells[i].alias = ig.stemcell}
        stemcellVersion ==
            IF release.stemcell.set
            THEN <<release.stemcell.os, release.stemcell.version>>
            ELSE <<m.stemcells[SetMax(scIdx)].os, m.stemcells[SetMax(scIdx)].version>>
    IN << <<"app.kubernetes.io/version-image-", job.release>>,
          stemcellVersion \o <<release.version>> >>

C21_Covered(m) ==
    \A g \in 1..Len(m.igs) : \A j \in 1..Len(m.igs[g].jobs) : \A n \in 1..Len(m.releases) :
        m.releases[n].name = m.igs[g].jobs[j].release
            => C21_LabelFor(m, m.igs[g], m.igs[g].jobs[j], m.releases[n]) \in m.igs[g].labels

C21_Returned(r) == r.pc = "done" /\ ~r.err /\ ~r.panicked /\ r.hasManifest

\* C21: in every manifest a successful resolution returns, each job of an
\* instance group whose release is listed, the jobs ApplyAddons injected
\* included, has its release's version-image label, with the stemcell and
\* release version as value, among the labels of the instance group.
C21_ReleaseLabelsCover ==
    \A i \in FullResolutions : C21_Returned(inv[i]) => C21_Covered(inv[i].m)

\* The same statement for the jobs the instance groups had when the labels
\* were added.
C21_OwnJobsLabelled ==
    \A i \in FullResolutions :
        C21_Returned(inv[i]) =>
            C21_Covered([inv[i].m EXCEPT !.igs =
                [g \in 1..Len(inv[i].m.igs) |->
                    [inv[i].m.igs[g] EXCEPT !.jobs =
                        SelectSeq(@, LAMBDA job : ~job.isAddon)]]])

C21_InjectedUnlabelled ==
    \E i \in FullResolutions :
        /\ C21_Returned(inv[i])
        /\ Len(inv[i].m.igs) = 1
        /\ \E j \in 1..Len(inv[i].m.igs[1].jobs) :
              /\ inv[i].m.igs[1].jobs[j].isAddon
              /\ inv[i].m.igs[1].jobs[j].release = "logs"
        /\ inv[i].m.igs[1].labels =
              {<< <<"app.kubernetes.io/version-image-", "nats">>, <<"ubuntu", "1", "1.2.3">> >>}

C22_NamesOnly == {i \in Invs : InvKinds[i] = "ImplicitVariables"}

C22_Distinct(names) ==
    \A k, n \in 1..Len(names) : k # n => names[k] # names[n]

\* C22: the list the names-only entry point returns holds no string twice.
C22_NoDuplicateNames ==
    \A i \in C22_NamesOnly :
        (inv[i].pc = "done" /\ ~inv[i].err) => C22_Distinct(inv[i].names)

\* The same statement for the manifests in which no placeholder names the
\* default key of a secret that another placeholder names without a key.
C22_NoDuplicateWithoutDefaultKey ==
    \A i \in C22_NamesOnly :
        (inv[i].pc = "done" /\ ~inv[i].err
           /\ \A n \in 1..Len(inv[i].implicitNames) :
                 ~(SlashedVariable(inv[i].implicitNames[n])
                     /\ classify(inv[i].implicitNames[n]).key = ImplicitVariableKeyName))
            => C22_Distinct(inv[i].names)

C22_SameSecretTwice ==
    \E i \in C22_NamesOnly :
        /\ inv[i].pc = "done" /\ ~inv[i].err
        /\ {inv[i].implicitNames[n] : n \in 1..Len(inv[i].implicitNames)}
              = {<<"a">>, <<"a", "/", "value">>}
        /\ inv[i].names = <<VarSecretName, VarSecretName>>

C23_Again == PropagateGlobalUpdateBlockToIGs(manifest)

\* C23: PropagateGlobalUpdateBlockToIGs never fails; without a global
\* update block every instance group keeps the update block it had, or
\* stays without one; a second application changes nothing.
C23_TotalAndIdempotent ==
    calls > 0 =>
        /\ ~io.panicked
        /\ ~pre.update.set => manifest = pre
        /\ ~C23_Again.panic /\ C23_Again.m = manifest

\* The same statement for the manifests that have a global update block.
C23_WithGlobalBlock ==
    (calls > 0 /\ pre.update.set) =>
        /\ ~io.panicked
        /\ ~C23_Again.panic /\ C23_Again.m = manifest

C23_NilGlobalRead ==
    /\ calls = 1 /\ io.panicked
    /\ ~pre.update.set
    /\ Len(pre.igs) = 1
    /\ pre.igs[1].update = Update("1000", "", "false")

C24_Prefix(before, after) ==
    /\ Len(after) >= Len(before)
    /\ SubSeq(after, 1, Len(before)) = before

\* C24: after a call of ApplyAddons every instance group's job list begins
\* with the job list it had, the jobs after it are marked as addon jobs,
\* nothing else of the instance group changed, and the addons with their job
\* definitions, the releases, the stemcells and the variables are unchanged.
C24_OnlyAppends ==
    calls > 0 =>
        /\ Len(manifest.igs) = Len(pre.igs)
        /\ \A g \in 1..Len(pre.igs) :
              /\ C24_Prefix(pre.igs[g].jobs, manifest.igs[g].jobs)
              /\ \A j \in (Len(pre.igs[g].jobs) + 1)..Len(manifest.igs[g].jobs) :
                    manifest.igs[g].jobs[j].isAddon
              /\ [manifest.igs[g] EXCEPT !.jobs = <<>>] = [pre.igs[g] EXCEPT !.jobs = <<>>]
        /\ manifest.addons = pre.addons
        /\ manifest.releases = pre.releases
        /\ manifest.stemcells = pre.stemcells
        /\ manifest.variables = pre.variables

C24_Witness ==
    /\ calls = 1 /\ ~lastErr
    /\ \E g \in 1..Len(pre.igs) :
          /\ pre.igs[g].jobs # <<>>
          /\ Len(manifest.igs[g].jobs) > Len(pre.igs[g].jobs)
    /\ \E a \in 1..Len(manifest.addons) :
          /\ manifest.addons[a].jobs # <<>>
          /\ \A j \in 1..Len(manifest.addons[a].jobs) : ~manifest.addons[a].jobs[j].isAddon
          /\ \E g \in 1..Len(pre.igs) : injected[<<a, g>>] > 0

(***************************************************************************)
(* InterpolateVariableFromSecrets (resolver.go:387-434): one invocation,   *)
(* held in io, against a store of QuarksSecrets and Secrets (env).  A      *)
(* QuarksSecret is "missing", "pending" or "generated".                    *)
(***************************************************************************)
MaxDeclared == 2

GateStep(name, idx, ok) == <<name, idx, ok>>

\* A plausible slip: the generated status is not looked at.
IsGeneratedAlways(status) == TRUE

\* resolver.go:406: varQuarksSecret.Status.IsGenerated()
IsGenerated(status) == status = "generated"

GateFail(r, steps) ==
    [r EXCEPT !.pc = "done", !.err = TRUE, !.trace = @ \o steps]

\* resolver.go:390-393
GateLoad ==
    /\ io.pc = "start"
    /\ LET ld == LoadYAML(env.data)
       IN io' = IF ~ld.ok THEN GateFail(io, <<GateStep("loadYAML", 0, FALSE)>>)
                ELSE [io EXCEPT !.variables = ld.m.variables,
                                !.trace = Append(@, GateStep("loadYAML", 0, TRUE)),
                                !.pc = IF ld.m.variables = <<>> THEN "evaluate"
                                       ELSE "quarks"]
    /\ UNCHANGED <<manifest, calls, lastErr, lastLog, injected, pre, faults, implicit,
                   env, inv>>

\* resolver.go:395-408
ReadQuarksSecret ==
    /\ io.pc = "quarks"
    /\ LET varSecretName == SecretVariableName(io.variables[io.idx])
           status == env.quarks[varSecretName]
       IN io' = IF status = "missing"
                THEN GateFail(io, <<GateStep("getQuarksSecret", io.idx, FALSE)>>)
                ELSE IF ~IsGenerated(status)
                THEN GateFail(io, <<GateStep("getQuarksSecret", io.idx, TRUE),
                                    GateStep("isGenerated", io.idx, FALSE)>>)
                ELSE [io EXCEPT !.pc = "secret",
                                !.trace = @ \o <<GateStep("getQuarksSecret", io.idx, TRUE),
                                                 GateStep("isGenerated", io.idx, TRUE)>>]
    /\ UNCHANGED <<manifest, calls, lastErr, lastLog, injected, pre, faults, implicit,
                   env, inv>>

\* resolver.go:410-427
ReadSecret ==
    /\ io.pc = "secret"
    /\ LET varName == io.variables[io.idx]
           secret == env.secrets[SecretVariableName(varName)]
       IN \E keys \in Orderings({kv[1] : kv \in secret.data}) :
          LET sv == staticVarFrom(secret.data, keys, NoStaticVar)
              staticVars == IF sv.set THEN (varName :> sv.val) ELSE <<>>
          IN io' = IF ~secret.exists
                   THEN GateFail(io, <<GateStep("getSecret", io.idx, FALSE)>>)
                   ELSE IF sv.panic
                   THEN [io EXCEPT !.pc = "done", !.panicked = TRUE,
                                   !.trace = Append(@, GateStep("getSecret", io.idx, TRUE))]
                   ELSE [io EXCEPT !.vars = Append(@, staticVars), !.idx = @ + 1,
                                   !.trace = Append(@, GateStep("getSecret", io.idx, TRUE)),
                                   !.pc = IF io.idx = Len(io.variables) THEN "evaluate"
                                          ELSE "quarks"]
    /\ UNCHANGED <<manifest, calls, lastErr, lastLog, injected, pre, faults, implicit,
                   env, inv>>

\* resolver.go:428-433
InterpolateDesired ==
    /\ io.pc = "evaluate"
    /\ LET ex == InterpolateExplicitVariables(env.data, io.vars, TRUE)
       IN io' = IF ~ex.ok THEN GateFail(io, <<GateStep("interpolateExplicit", 0, FALSE)>>)
                ELSE [io EXCEPT !.pc = "done", !.hasOutput = TRUE, !.out = ex.val,
                                !.trace = Append(@, GateStep("interpolateExplicit", 0, TRUE))]
    /\ UNCHANGED <<manifest, calls, lastErr, lastLog, injected, pre, faults, implicit,
                   env, inv>>

GateVariableNames == {<<"a">>, <<"value">>}

GateDocs ==
    {[EmptyManifest EXCEPT !.variables = vs, !.props = <<Placeholder(<<"a">>)>>] :
        vs \in SeqsUpTo(GateVariableNames, MaxDeclared)}

GateSecrets ==
    { Secret(FALSE, FALSE, {}),
      Secret(TRUE, FALSE, {<< <<"password">>, "pw">>}),
      Secret(TRUE, FALSE, {<< <<"ca">>, "cert">>}),
      Secret(TRUE, FALSE, {<< <<"password">>, "pw">>, << <<"ca">>, "cert">>}) }

GateSecretNames == {SecretVariableName(n) : n \in GateVariableNames}

InitGate ==
    /\ \E data \in {Yaml(d) : d \in GateDocs} \cup {Garbage},
          quarks \in [GateSecretNames -> {"missing", "pending", "generated"}],
          secrets \in [GateSecretNames -> GateSecrets] :
          env = [data |-> data, quarks |-> quarks, secrets |-> secrets]
    /\ io = [pc |-> "start", idx |-> 1, variables |-> <<>>, vars |-> <<>>,
             err |-> FALSE, panicked |-> FALSE, hasOutput |-> FALSE, out |-> NilBytes,
             trace |-> <<>>]
    /\ faults = {}
    /\ manifest = EmptyManifest
    /\ pre = EmptyManifest
    /\ calls = 0
    /\ lastErr = FALSE
    /\ lastLog = <<>>
    /\ injected = <<>>
    /\ implicit = [called |-> FALSE, ok |-> TRUE, names |-> <<>>]
    /\ inv = <<>>

NextGate == GateLoad \/ ReadQuarksSecret \/ ReadSecret \/ InterpolateDesired

SpecGate == InitGate /\ [][NextGate]_vars

C25_Reads == {"getQuarksSecret", "getSecret"}

C25_Declared == IF env.data.kind = "yaml" THEN env.data.doc.variables ELSE <<>>

C25_StatusOf(n) == env.quarks[SecretVariableName(C25_Declared[n])]

\* the reads follow the declaration order, the QuarksSecret of a variable
\* right before its Secret
C25_InOrder(trace) ==
    \A k \in 1..Len(trace) :
        /\ trace[k][1] = "getSecret" =>
              /\ k > 2
              /\ trace[k - 2] = GateStep("getQuarksSecret", trace[k][2], TRUE)
              /\ trace[k - 1] = GateStep("isGenerated", trace[k][2], TRUE)
        /\ trace[k][1] = "getQuarksSecret" =>
              /\ \A j \in 1..(k - 1) : trace[j][1] \in C25_Reads => trace[j][2] < trace[k][2]
              /\ \A n \in 1..(trace[k][2] - 1) :
                    \E j \in 1..(k - 1) : trace[j] = GateStep("getSecret", n, TRUE)

C25_Gated(r) ==
    \A n \in 1..Len(C25_Declared) :
        ((\E k \in 1..Len(r.trace) :
              r.trace[k][1] = "getQuarksSecret" /\ r.trace[k][2] = n)
           /\ C25_StatusOf(n) # "generated")
        => /\ r.pc = "done" /\ r.err /\ ~r.hasOutput
           /\ \A k \in 1..Len(r.trace) :
                 /\ r.trace[k][1] = "getSecret" => r.trace[k][2] < n
                 /\ r.trace[k][1] = "getQuarksSecret" => r.trace[k][2] <= n
                 /\ r.trace[k][1] # "interpolateExplicit"

C25_OutputOnlyAfterAll(r) ==
    r.hasOutput =>
        /\ ~r.err
        /\ \A n \in 1..Len(C25_Declared) :
              /\ C25_StatusOf(n) = "generated"
              /\ \E k \in 1..Len(r.trace) : r.trace[k] = GateStep("getSecret", n, TRUE)

\* C25: InterpolateVariableFromSecrets reads, for each declared variable in
\* declaration order, the QuarksSecret before the Secret; a QuarksSecret
\* that is missing or not generated ends the call with an error before that
\* variable's Secret, any later secret or the template is touched; bytes
\* are returned only when every declared variable's secret was generated
\* and read.
C25_GatedOnGeneration ==
    /\ C25_InOrder(io.trace)
    /\ C25_Gated(io)
    /\ C25_OutputOnlyAfterAll(io)

C25_Witness ==
    /\ io.pc = "done" /\ io.err /\ ~io.hasOutput
    /\ Len(C25_Declared) = 2
    /\ C25_StatusOf(1) = "generated" /\ C25_StatusOf(2) = "pending"
    /\ io.trace = <<GateStep("loadYAML", 0, TRUE),
                    GateStep("getQuarksSecret", 1, TRUE), GateStep("isGenerated", 1, TRUE),
                    GateStep("getSecret", 1, TRUE),
                    GateStep("getQuarksSecret", 2, TRUE), GateStep("isGenerated", 2, FALSE)>>

C25_OutputProduced ==
    /\ io.hasOutput /\ Len(C25_Declared) = 2
    /\ C25_Declared[1] # C25_Declared[2]

====
